---- MODULE Spec2Model ----
(***************************************************************************)
(* ArbiterOS-core: the Policy Engine (policy_engine.py), the Managed       *)
(* Execution Record (managed_state.py), the Instruction Binding wrapper    *)
(* (instruction_binding.py, ArbiterGraph._execute_instruction), the        *)
(* Arbiter (ArbiterGraph._arbiter_function) and the Flight Recorder        *)
(* (observability.py).                                                     *)
(*                                                                         *)
(* Conventions.  A Python dict is a TLA+ function whose DOMAIN is the set  *)
(* of keys present; d.get(k, v) is Get(d, k, v).  A Python str built with  *)
(* an f-string is the tuple of its pieces, so that "the message names the  *)
(* binding" is a statement about the pieces.  None is the string "None"    *)
(* where the field holds an identifier and the empty tuple where it holds  *)
(* a text.  Floats (seconds, confidences) are integers (ticks, tenths).    *)
(***************************************************************************)
EXTENDS Integers, Sequences, FiniteSets, TLC

VARIABLES
    policy_config,          \* ArbiterGraph.policy_config / PolicyEngine.config
    instruction_bindings,   \* ArbiterGraph.instruction_bindings: id -> binding
    arbiter_execution_id,   \* ArbiterGraph.execution_id
    state,                  \* the ManagedState of the run
    traces,                 \* FlightDataRecorder.traces
    clock,                  \* datetime.now(): one tick per operation
    phase,                  \* position of ArbiterGraph.execute: "running" | "completed"
    about_to_run,           \* the scheduler's "about to run X" of the last arbiter call
    steps,                  \* number of arbiter steps and wrapper executions so far
    last,                   \* what the last operation was and what it returned
    hist,                   \* history of the run: which outcomes have occurred so far
    runs                    \* the records of the runs that share the ArbiterGraph: id -> record

vars == <<policy_config, instruction_bindings, arbiter_execution_id, state, traces,
          clock, phase, about_to_run, steps, last, hist, runs>>

----------------------------------------------------------------------------
(* Python values *)

None == "None"

NoneText == << >>

Get(d, k, default) == IF k \in DOMAIN d THEN d[k] ELSE default

Range(s) == {s[i] : i \in DOMAIN s}

\* dict.update: keys of u override keys of d
DictUpdate(d, u) == [k \in (DOMAIN d) \cup (DOMAIN u) |-> IF k \in DOMAIN u THEN u[k] ELSE d[k]]

EmptyDict == [k \in {} |-> 0]

\* a or b, on numbers
PyOr(a, b) == IF a # 0 THEN a ELSE b

\* [x for x in s if Test(x)]
RECURSIVE SelectSeqBy(_, _)
SelectSeqBy(s, keep) ==
    IF s = << >> THEN << >>
    ELSE (IF Head(s) \in keep THEN <<Head(s)>> ELSE << >>) \o SelectSeqBy(Tail(s), keep)

\* the number of times x occurs in the list s
RECURSIVE Count(_, _)
Count(s, x) ==
    IF s = << >> THEN 0
    ELSE (IF Head(s) = x THEN 1 ELSE 0) + Count(Tail(s), x)

RECURSIVE Repeat(_, _)
Repeat(x, n) == IF n = 0 THEN << >> ELSE <<x>> \o Repeat(x, n - 1)

----------------------------------------------------------------------------
(* Text: str.lower and the substring test of the content-aware evaluator *)

Lower(c) == CASE c = "A" -> "a" [] c = "B" -> "b" [] OTHER -> c

LowerStr(s) == [i \in DOMAIN s |-> Lower(s[i])]

\* needle in hay
IsSubstring(needle, hay) ==
    \E i \in 0..(Len(hay) - Len(needle)) :
        \A j \in 1..Len(needle) : hay[i + j] = needle[j]

----------------------------------------------------------------------------
(* InstructionType, PolicyRuleType *)

InstructionTypes == {"GENERATE", "TOOL_CALL", "VERIFY", "FALLBACK"}

PolicyRuleTypes == {"semantic_safety", "content_aware", "resource_limit",
                    "conditional_resilience", "custom"}

\* condition.get("confidence_threshold", 0.8), in tenths
DefaultConfidenceThreshold == 8

\* len(recent_instructions) > 5
RecentCapacity == 5

----------------------------------------------------------------------------
(* PolicyRule, PolicyConfig.  A rule is                                    *)
(*   [rule_id, rule_type, condition, ill_typed, action, action_params,     *)
(*    severity, enabled, applies_to]                                       *)
(* where condition is the dict of the rule and ill_typed the keys of       *)
(* condition whose value is not a number (comparing it raises TypeError).  *)

Rule(id, type, cond, action, severity, applies) ==
    [rule_id |-> id, rule_type |-> type, condition |-> cond, ill_typed |-> {},
     action |-> action, action_params |-> None, severity |-> severity,
     enabled |-> TRUE, applies_to |-> applies]

\* PolicyConfig.get_rules_for_instruction: the uncompiled filter
get_rules_for_instruction(config, instruction_type) ==
    LET keep == {r \in Range(config.rules) :
                    r.enabled /\ (r.applies_to = << >> \/ instruction_type \in Range(r.applies_to))}
    IN  SelectSeqBy(config.rules, keep)

\* PolicyEngine._compile_rule_caches: bucket `tag` of _applies_map
RECURSIVE AppliesBucket(_, _)
AppliesBucket(rules, tag) ==
    IF rules = << >> THEN << >>
    ELSE LET rule == Head(rules)
             here == IF ~rule.enabled THEN << >>
                     ELSE IF rule.applies_to = << >>
                          THEN (IF tag = "*" THEN <<rule>> ELSE << >>)
                          ELSE Repeat(rule, Count(rule.applies_to, tag))
         IN  here \o AppliesBucket(Tail(rules), tag)

applies_map(config, tag) == AppliesBucket(config.rules, tag)

\* PolicyEngine._compile_rule_caches: the keys of _transition_matrix
transition_matrix(config) ==
    UNION {Range(Get(r.condition, "allowed_flows", << >>)) :
              r \in {q \in Range(config.rules) : q.enabled /\ q.rule_type = "semantic_safety"}}

----------------------------------------------------------------------------
(* The evaluators.  Each returns [raised, passed, details].                *)

Verdict(passed, details) == [raised |-> FALSE, passed |-> passed, details |-> details]

Raised(msg) == [raised |-> TRUE, passed |-> FALSE, details |-> msg]

\* _evaluate_semantic_safety looking at the oldest recent instruction instead of the last
_evaluate_semantic_safety_oldest(config, rule, instruction_type, snapshot) ==
    LET recent == Get(Get(snapshot, "os_metadata", EmptyDict), "recent_instructions", << >>)
    IN  IF /\ instruction_type = "TOOL_CALL"
           /\ recent # << >>
           /\ recent[1] = "GENERATE"
           /\ "GENERATE->TOOL_CALL" \notin transition_matrix(config)
        THEN Verdict(FALSE,
                 [violation |-> <<"Cognitive instruction followed by Execution without verification">>,
                  required_action |-> <<"Add VERIFY step between GENERATE and TOOL_CALL">>])
        ELSE Verdict(TRUE, [message |-> <<"Semantic safety check passed">>])

\* the body of _evaluate_semantic_safety, given the _transition_matrix of the engine
SemanticSafety(transition, rule, instruction_type, snapshot) ==
    LET recent == Get(Get(snapshot, "os_metadata", EmptyDict), "recent_instructions", << >>)
    IN  IF /\ instruction_type = "TOOL_CALL"
           /\ recent # << >>
           /\ recent[Len(recent)] = "GENERATE"
           /\ "GENERATE->TOOL_CALL" \notin transition
        THEN Verdict(FALSE,
                 [violation |-> <<"Cognitive instruction followed by Execution without verification">>,
                  required_action |-> <<"Add VERIFY step between GENERATE and TOOL_CALL">>])
        ELSE Verdict(TRUE, [message |-> <<"Semantic safety check passed">>])

_evaluate_semantic_safety(config, rule, instruction_type, snapshot) ==
    SemanticSafety(transition_matrix(config), rule, instruction_type, snapshot)

\* the position of the first keyword of the list that occurs in the content, 0 if none
RECURSIVE FirstKeyword(_, _, _)
FirstKeyword(keywords, content, i) ==
    IF i > Len(keywords) THEN 0
    ELSE IF IsSubstring(LowerStr(keywords[i]), LowerStr(content)) THEN i
    ELSE FirstKeyword(keywords, content, i + 1)

\* _evaluate_content_aware failing already at max_length
_evaluate_content_aware_at_least(config, rule, instruction_type, snapshot) ==
    LET condition == rule.condition
        content   == Get(snapshot, "content", << >>)
        keywords  == Get(condition, "sensitive_keywords", << >>)
        hit       == FirstKeyword(keywords, content, 1)
    IN  IF hit # 0
        THEN Verdict(FALSE, [violation |-> <<"Sensitive keyword detected: ">> \o keywords[hit],
                             detected_keyword |-> keywords[hit]])
        ELSE IF "max_length" \in DOMAIN condition
        THEN IF "max_length" \in rule.ill_typed
             THEN Raised(<<"'>' not supported">>)
             ELSE IF Len(content) >= condition["max_length"]
             THEN Verdict(FALSE,
                      [violation |-> <<"Content exceeds maximum length: ", ToString(Len(content)),
                                       " > ", ToString(condition["max_length"])>>,
                       current_length |-> Len(content),
                       max_length |-> condition["max_length"]])
             ELSE Verdict(TRUE, [message |-> <<"Content-aware check passed">>])
        ELSE Verdict(TRUE, [message |-> <<"Content-aware check passed">>])

_evaluate_content_aware(config, rule, instruction_type, snapshot) ==
    LET condition == rule.condition
        content   == Get(snapshot, "content", << >>)
        keywords  == Get(condition, "sensitive_keywords", << >>)
        hit       == FirstKeyword(keywords, content, 1)
    IN  IF hit # 0
        THEN Verdict(FALSE, [violation |-> <<"Sensitive keyword detected: ">> \o keywords[hit],
                             detected_keyword |-> keywords[hit]])
        ELSE IF "max_length" \in DOMAIN condition
        THEN IF "max_length" \in rule.ill_typed
             THEN Raised(<<"'>' not supported">>)
             ELSE IF Len(content) > condition["max_length"]
             THEN Verdict(FALSE,
                      [violation |-> <<"Content exceeds maximum length: ", ToString(Len(content)),
                                       " > ", ToString(condition["max_length"])>>,
                       current_length |-> Len(content),
                       max_length |-> condition["max_length"]])
             ELSE Verdict(TRUE, [message |-> <<"Content-aware check passed">>])
        ELSE Verdict(TRUE, [message |-> <<"Content-aware check passed">>])

\* _evaluate_resource_limit reading the token counter at the top level of the snapshot only
_evaluate_resource_limit_top_level(config, rule, instruction_type, snapshot) ==
    LET condition      == rule.condition
        os             == Get(snapshot, "os_metadata", EmptyDict)
        current_tokens == Get(snapshot, "total_tokens", 0)
        execution_time == PyOr(Get(snapshot, "execution_time", 0), Get(os, "execution_time", 0))
        tokens_checked == "max_tokens" \in DOMAIN condition
        time_checked   == "max_execution_time" \in DOMAIN condition
    IN  IF tokens_checked /\ "max_tokens" \in rule.ill_typed
        THEN Raised(<<"'>' not supported">>)
        ELSE IF tokens_checked /\ current_tokens > condition["max_tokens"]
        THEN Verdict(FALSE,
                 [violation |-> <<"Token limit exceeded: ", ToString(current_tokens), " > ",
                                  ToString(condition["max_tokens"])>>,
                  current_tokens |-> current_tokens,
                  max_tokens |-> condition["max_tokens"]])
        ELSE IF time_checked /\ "max_execution_time" \in rule.ill_typed
        THEN Raised(<<"'>' not supported">>)
        ELSE IF time_checked /\ execution_time > condition["max_execution_time"]
        THEN Verdict(FALSE,
                 [violation |-> <<"Execution time exceeded: ", ToString(execution_time), "s > ",
                                  ToString(condition["max_execution_time"]), "s">>,
                  current_time |-> execution_time,
                  max_time |-> condition["max_execution_time"]])
        ELSE Verdict(TRUE, [message |-> <<"Resource limit check passed">>])

_evaluate_resource_limit(config, rule, instruction_type, snapshot) ==
    LET condition      == rule.condition
        os             == Get(snapshot, "os_metadata", EmptyDict)
        current_tokens == PyOr(Get(snapshot, "total_tokens", 0), Get(os, "total_tokens", 0))
        execution_time == PyOr(Get(snapshot, "execution_time", 0), Get(os, "execution_time", 0))
        tokens_checked == "max_tokens" \in DOMAIN condition
        time_checked   == "max_execution_time" \in DOMAIN condition
    IN  IF tokens_checked /\ "max_tokens" \in rule.ill_typed
        THEN Raised(<<"'>' not supported">>)
        ELSE IF tokens_checked /\ current_tokens > condition["max_tokens"]
        THEN Verdict(FALSE,
                 [violation |-> <<"Token limit exceeded: ", ToString(current_tokens), " > ",
                                  ToString(condition["max_tokens"])>>,
                  current_tokens |-> current_tokens,
                  max_tokens |-> condition["max_tokens"]])
        ELSE IF time_checked /\ "max_execution_time" \in rule.ill_typed
        THEN Raised(<<"'>' not supported">>)
        ELSE IF time_checked /\ execution_time > condition["max_execution_time"]
        THEN Verdict(FALSE,
                 [violation |-> <<"Execution time exceeded: ", ToString(execution_time), "s > ",
                                  ToString(condition["max_execution_time"]), "s">>,
                  current_time |-> execution_time,
                  max_time |-> condition["max_execution_time"]])
        ELSE Verdict(TRUE, [message |-> <<"Resource limit check passed">>])

_evaluate_conditional_resilience(config, rule, instruction_type, snapshot) ==
    LET condition  == rule.condition
        confidence == Get(snapshot, "verification_confidence", 0)
        threshold  == Get(condition, "confidence_threshold", DefaultConfidenceThreshold)
    IN  IF "verify_failed" \in DOMAIN snapshot /\ snapshot["verify_failed"]
        THEN IF "confidence_threshold" \in rule.ill_typed
             THEN Raised(<<"'<' not supported">>)
             ELSE IF confidence < threshold
             THEN Verdict(FALSE,
                      [violation |-> <<"Verification confidence too low: ", ToString(confidence), " < ",
                                       ToString(threshold)>>,
                       confidence |-> confidence,
                       threshold |-> threshold,
                       required_action |-> <<"Trigger FALLBACK">>])
             ELSE Verdict(TRUE, [message |-> <<"Conditional resilience check passed">>])
        ELSE Verdict(TRUE, [message |-> <<"Conditional resilience check passed">>])

_evaluate_custom(config, rule, instruction_type, snapshot) ==
    Verdict(TRUE, [message |-> <<"Custom rule evaluation not implemented">>])

ErrorResult(rule, msg) ==
    [rule_id |-> rule.rule_id, passed |-> FALSE, error |-> msg, severity |-> "error"]

\* PolicyEngine._evaluate_rule, after the evaluator has returned or raised: the result dict
RuleResult(rule, v) ==
    IF v.raised
    THEN ErrorResult(rule, v.details)
    ELSE [rule_id |-> rule.rule_id,
          rule_type |-> rule.rule_type,
          passed |-> v.passed,
          details |-> v.details,
          severity |-> rule.severity,
          action |-> IF ~v.passed THEN rule.action ELSE None,
          action_params |-> IF ~v.passed THEN rule.action_params ELSE None]

\* PolicyEngine._evaluate_rule: dispatch on the rule type, one result dict
_evaluate_rule(config, rule, instruction_type, snapshot) ==
    IF rule.rule_type \notin PolicyRuleTypes
    THEN ErrorResult(rule, <<"No evaluator for rule type: ", rule.rule_type>>)
    ELSE RuleResult(rule,
             CASE rule.rule_type = "semantic_safety" ->
                      _evaluate_semantic_safety(config, rule, instruction_type, snapshot)
               [] rule.rule_type = "content_aware" ->
                      _evaluate_content_aware(config, rule, instruction_type, snapshot)
               [] rule.rule_type = "resource_limit" ->
                      _evaluate_resource_limit(config, rule, instruction_type, snapshot)
               [] rule.rule_type = "conditional_resilience" ->
                      _evaluate_conditional_resilience(config, rule, instruction_type, snapshot)
               [] rule.rule_type = "custom" ->
                      _evaluate_custom(config, rule, instruction_type, snapshot))

\* PolicyEngine.evaluate_rules
evaluate_rules(config, instruction_type, snapshot) ==
    LET applicable_rules == applies_map(config, instruction_type) \o applies_map(config, "*")
    IN  [i \in DOMAIN applicable_rules |->
            _evaluate_rule(config, applicable_rules[i], instruction_type, snapshot)]

\* not r.get("passed", True)
Failed(r) == ~Get(r, "passed", TRUE)

\* some failing result has the given value under the given key
SomeFailing(rule_results, key, value) ==
    \E i \in DOMAIN rule_results :
        Failed(rule_results[i]) /\ Get(rule_results[i], key, None) = value

\* should_allow_execution without its strict-mode clause: only critical failures block
should_allow_execution_critical_only(config, instruction_type, snapshot) ==
    <<~SomeFailing(evaluate_rules(config, instruction_type, snapshot), "severity", "critical"),
      evaluate_rules(config, instruction_type, snapshot)>>

\* PolicyEngine.should_allow_execution, after evaluate_rules has returned the results
AllowDecision(config, results) ==
    LET critical_failures == {i \in DOMAIN results :
                                 Failed(results[i]) /\ Get(results[i], "severity", None) = "critical"}
        failures          == {i \in DOMAIN results : Failed(results[i])}
    IN  IF critical_failures # {} THEN <<FALSE, results>>
        ELSE IF config.strict_mode /\ failures # {} THEN <<FALSE, results>>
        ELSE <<TRUE, results>>

\* should_allow_execution blocking on any failure, whatever strict_mode is
should_allow_execution_any_failure(config, instruction_type, snapshot) ==
    <<~SomeFailing(evaluate_rules(config, instruction_type, snapshot), "passed", FALSE),
      evaluate_rules(config, instruction_type, snapshot)>>

\* PolicyEngine.should_allow_execution: <<allowed, results>>
should_allow_execution(config, instruction_type, snapshot) ==
    AllowDecision(config, evaluate_rules(config, instruction_type, snapshot))

----------------------------------------------------------------------------
(* ManagedState, StateMetadata.  Every operation is a function from the    *)
(* record (and the current time) to the record after the call.             *)

\* StateMetadata(execution_id=...): the field defaults
NewStateMetadata(execution_id, now) ==
    [execution_id         |-> execution_id,
     start_time           |-> now,
     last_updated         |-> now,
     current_instruction  |-> None,
     instruction_history  |-> << >>,
     recent_instructions  |-> << >>,
     total_tokens         |-> 0,
     execution_time       |-> 0,
     retry_count          |-> 0,
     policy_violations    |-> << >>,
     verification_status  |-> None,
     interrupt_reason     |-> NoneText,
     errors               |-> << >>,
     fallback_triggered   |-> FALSE,
     latency_metrics      |-> EmptyDict,
     cost_metrics         |-> EmptyDict]

\* ManagedState()
NewManagedState(execution_id, now) ==
    [user_state   |-> EmptyDict,
     os_metadata  |-> NewStateMetadata(execution_id, now),
     system_state |-> EmptyDict]

Touch(st, now) == [st EXCEPT !.os_metadata.last_updated = now]

update_user_state(st, updates, now) ==
    Touch([st EXCEPT !.user_state = DictUpdate(@, updates)], now)

\* add_instruction_to_history with pop() in place of pop(0)
add_instruction_to_history_pop_newest(st, instruction_id) ==
    LET appended == Append(st.os_metadata.recent_instructions, instruction_id)
    IN  [st EXCEPT !.os_metadata.instruction_history = Append(@, instruction_id),
                   !.os_metadata.recent_instructions =
                       IF Len(appended) > RecentCapacity
                       THEN SubSeq(appended, 1, Len(appended) - 1) ELSE appended]

add_instruction_to_history(st, instruction_id) ==
    LET appended == Append(st.os_metadata.recent_instructions, instruction_id)
    IN  [st EXCEPT !.os_metadata.instruction_history = Append(@, instruction_id),
                   !.os_metadata.recent_instructions =
                       IF Len(appended) > RecentCapacity THEN Tail(appended) ELSE appended]

set_current_instruction(st, instruction_id) ==
    add_instruction_to_history(
        [st EXCEPT !.os_metadata.current_instruction = instruction_id], instruction_id)

\* violation["timestamp"] = datetime.now().isoformat()
Stamped(d, now) == DictUpdate(d, [timestamp |-> now])

\* add_policy_violation keeping only the latest violation
add_policy_violation_latest_only(st, violation, now) ==
    [st EXCEPT !.os_metadata.policy_violations = <<Stamped(violation, now)>>]

add_policy_violation(st, violation, now) ==
    [st EXCEPT !.os_metadata.policy_violations = Append(@, Stamped(violation, now))]

\* add_error assigning the list instead of appending to it
add_error_overwrite(st, error, now) ==
    [st EXCEPT !.os_metadata.errors = <<Stamped(error, now)>>]

add_error(st, error, now) ==
    [st EXCEPT !.os_metadata.errors = Append(@, Stamped(error, now))]

trigger_fallback(st, reason, now) ==
    Touch([st EXCEPT !.os_metadata.fallback_triggered = TRUE,
                     !.os_metadata.interrupt_reason = <<"FALLBACK: ">> \o reason], now)

\* trigger_interrupt also taking the interrupted instruction off the record
trigger_interrupt_clearing_instruction(st, reason, now) ==
    Touch([st EXCEPT !.os_metadata.interrupt_reason = reason,
                     !.os_metadata.current_instruction = None], now)

\* trigger_interrupt treating interrupt and fallback as exclusive
trigger_interrupt_exclusive(st, reason, now) ==
    Touch([st EXCEPT !.os_metadata.interrupt_reason = reason,
                     !.os_metadata.fallback_triggered = FALSE], now)

trigger_interrupt(st, reason, now) ==
    Touch([st EXCEPT !.os_metadata.interrupt_reason = reason], now)

\* update_resource_usage keeping the tokens of the latest execution instead of the total
update_resource_usage_latest(st, tokens, execution_time, now) ==
    Touch([st EXCEPT !.os_metadata.total_tokens = tokens,
                     !.os_metadata.execution_time = @ + execution_time], now)

update_resource_usage(st, tokens, execution_time, now) ==
    Touch([st EXCEPT !.os_metadata.total_tokens = @ + tokens,
                     !.os_metadata.execution_time = @ + execution_time], now)

update_latency_metric(st, operation, latency, now) ==
    Touch([st EXCEPT !.os_metadata.latency_metrics = DictUpdate(@, [k \in {operation} |-> latency])], now)

\* is_healthy without the test of the error list
is_healthy_ignoring_errors(st) ==
    /\ ~st.os_metadata.fallback_triggered
    /\ st.os_metadata.interrupt_reason = NoneText

is_healthy(st) ==
    /\ Len(st.os_metadata.errors) = 0
    /\ ~st.os_metadata.fallback_triggered
    /\ st.os_metadata.interrupt_reason = NoneText

\* to_dict: os_metadata.model_dump() is the dict of the metadata fields
to_dict(st) ==
    [user_state |-> st.user_state, os_metadata |-> st.os_metadata, system_state |-> st.system_state]

----------------------------------------------------------------------------
(* Serialization of the record.  In the records that are serialized here a  *)
(* value of user_state or system_state is a Python value [py, v]: its type  *)
(* (str, int, list, tuple, datetime) and its text.  A JSON value is         *)
(* [json, v]: its kind (string, number, array) and its text.  A datetime    *)
(* field of the metadata is its tick; str(datetime) is the text of the tick.*)

PyValue(type, text) == [py |-> type, v |-> text]

\* the latest tick a datetime text is parsed to
MaxTick == 16

\* json.dumps(value, default=str) of one payload value
json_dumps_value(value) ==
    CASE value.py = "str"      -> [json |-> "string", v |-> value.v]
      [] value.py = "int"      -> [json |-> "number", v |-> value.v]
      [] value.py = "list"     -> [json |-> "array", v |-> value.v]
      [] value.py = "tuple"    -> [json |-> "array", v |-> value.v]
      [] OTHER                 -> [json |-> "string", v |-> value.v]

\* json.loads of one payload value
json_loads_value(value) ==
    CASE value.json = "string" -> PyValue("str", value.v)
      [] value.json = "number" -> PyValue("int", value.v)
      [] value.json = "array"  -> PyValue("list", value.v)

\* json.dumps(self.to_dict(), default=str): the datetime fields of the metadata become text
json_dumps(data) ==
    [user_state   |-> [k \in DOMAIN data.user_state |-> json_dumps_value(data.user_state[k])],
     os_metadata  |-> [data.os_metadata EXCEPT !.start_time = ToString(@),
                                               !.last_updated = ToString(@)],
     system_state |-> [k \in DOMAIN data.system_state |-> json_dumps_value(data.system_state[k])]]

json_loads(text) ==
    [user_state   |-> [k \in DOMAIN text.user_state |-> json_loads_value(text.user_state[k])],
     os_metadata  |-> text.os_metadata,
     system_state |-> [k \in DOMAIN text.system_state |-> json_loads_value(text.system_state[k])]]

\* the validation of a datetime field of StateMetadata: a datetime, or the text of one
DatetimeField(x) ==
    CHOOSE n \in 0..MaxTick : ToString(x) \in {ToString(n), ToString(ToString(n))}

\* ManagedState.from_dict
from_dict(data) ==
    [user_state   |-> data.user_state,
     os_metadata  |-> [data.os_metadata EXCEPT !.start_time = DatetimeField(@),
                                               !.last_updated = DatetimeField(@)],
     system_state |-> data.system_state]

\* ManagedState.serialize
serialize(st) == json_dumps(to_dict(st))

\* ManagedState.deserialize
deserialize(text) == from_dict(json_loads(text))

----------------------------------------------------------------------------
(* InstructionBinding.  A binding is                                       *)
(*   [id, instruction_type, input_schema, output_schema]                   *)
(* where input_schema is the set of required fields of the input model and *)
(* output_schema is [required, optional] of the output model.  What the    *)
(* implementation does on a call is an input of the model:                 *)
(*   [kind |-> "raise"]                  it raises                         *)
(*   [kind |-> "dict", value |-> d]      it returns the dict d             *)
(*   [kind |-> "scalar", value |-> v]    it returns the non-dict v         *)

Binding(id, type, input, required, optional) ==
    [id |-> id, instruction_type |-> type, input_schema |-> input,
     output_schema |-> [required |-> required, optional |-> optional]]

Exception(type, msg, stage, invoked) ==
    [ok |-> FALSE, error_type |-> type, message |-> msg, stage |-> stage, invoked |-> invoked]

Returned(value) == [ok |-> TRUE, value |-> value, stage |-> "completed", invoked |-> 1]

\* validate_input: self.input_schema(**data)
validate_input(binding, data) == binding.input_schema \subseteq DOMAIN data

\* validate_output: self.output_schema(**data)
validate_output(binding, data) == binding.output_schema.required \subseteq DOMAIN data

\* validated_output.model_dump(): the declared fields only, None for an absent optional one
model_dump(binding, data) ==
    [k \in binding.output_schema.required \cup binding.output_schema.optional |->
        IF k \in DOMAIN data THEN data[k] ELSE None]

\* execute calling the implementation again, max_retries times, when it raises
execute_retrying(binding, state_dict, impl) ==
    LET input_data == Get(state_dict, "user_state", EmptyDict)
    IN  IF ~validate_input(binding, input_data)
        THEN Exception("ValueError",
                       <<"Input validation failed for ", binding.id, ": ", "field required">>,
                       "input", 0)
        ELSE IF impl.kind = "raise"
        THEN Exception("RuntimeError",
                       <<"Instruction execution failed for ", binding.id, ": ", "implementation error">>,
                       "implementation", 1 + Get(binding, "max_retries", 3))
        ELSE LET result == IF impl.kind = "dict" THEN impl.value ELSE [result |-> impl.value]
             IN  IF ~validate_output(binding, result)
                 THEN Exception("RuntimeError",
                                <<"Instruction execution failed for ", binding.id, ": ",
                                  "Output validation failed for ", binding.id, ": ", "field required">>,
                                "output", 1)
                 ELSE Returned(model_dump(binding, result))

\* InstructionBinding.execute(state): the validated output, or the exception raised
execute(binding, state_dict, impl) ==
    LET input_data == Get(state_dict, "user_state", EmptyDict)
    IN  IF ~validate_input(binding, input_data)
        THEN Exception("ValueError",
                       <<"Input validation failed for ", binding.id, ": ", "field required">>,
                       "input", 0)
        ELSE IF impl.kind = "raise"
        THEN Exception("RuntimeError",
                       <<"Instruction execution failed for ", binding.id, ": ", "implementation error">>,
                       "implementation", 1)
        ELSE LET result == IF impl.kind = "dict" THEN impl.value ELSE [result |-> impl.value]
             IN  IF ~validate_output(binding, result)
                 THEN Exception("RuntimeError",
                                <<"Instruction execution failed for ", binding.id, ": ",
                                  "Output validation failed for ", binding.id, ": ", "field required">>,
                                "output", 1)
                 ELSE Returned(model_dump(binding, result))

----------------------------------------------------------------------------
(* FlightDataRecorder: every operation returns the list of events after it *)

TraceEvent(event_type, data, instruction_id, execution_id, now) ==
    [event_type |-> event_type, timestamp |-> now, data |-> data,
     instruction_id |-> instruction_id, execution_id |-> execution_id]

record_event(tr, event_type, data, instruction_id, execution_id, now) ==
    Append(tr, TraceEvent(event_type, data, instruction_id, execution_id, now))

record_instruction_start(tr, instruction_id, instruction_type, execution_id, now) ==
    record_event(tr, "instruction_start",
                 [instruction_id |-> instruction_id, instruction_type |-> instruction_type,
                  status |-> "started"],
                 instruction_id, execution_id, now)

\* called without an execution id: the event's execution_id is None
record_instruction_end_ok(tr, instruction_id, execution_time, tokens_used, tokens_is_none, now) ==
    record_event(tr, "instruction_end",
                 IF tokens_is_none
                 THEN [instruction_id |-> instruction_id, status |-> "completed",
                       execution_time |-> execution_time]
                 ELSE [instruction_id |-> instruction_id, status |-> "completed",
                       execution_time |-> execution_time, tokens_used |-> tokens_used],
                 instruction_id, None, now)

record_instruction_end_failed(tr, instruction_id, execution_time, error, now) ==
    record_event(tr, "instruction_end",
                 IF error = << >>
                 THEN [instruction_id |-> instruction_id, status |-> "failed",
                       execution_time |-> execution_time]
                 ELSE [instruction_id |-> instruction_id, status |-> "failed",
                       execution_time |-> execution_time, error |-> error],
                 instruction_id, None, now)

\* record_policy_evaluation counting every result as a violation
record_policy_evaluation_counting_all(tr, instruction_id, rule_results, execution_id, now) ==
    record_event(tr, "policy_evaluation",
                 [instruction_id |-> instruction_id,
                  rule_results |-> rule_results,
                  total_rules |-> Len(rule_results),
                  violations |-> Len(rule_results)],
                 instruction_id, execution_id, now)

record_policy_evaluation(tr, instruction_id, rule_results, execution_id, now) ==
    record_event(tr, "policy_evaluation",
                 [instruction_id |-> instruction_id,
                  rule_results |-> rule_results,
                  total_rules |-> Len(rule_results),
                  violations |-> Cardinality({i \in DOMAIN rule_results : Failed(rule_results[i])})],
                 instruction_id, execution_id, now)

record_policy_violation(tr, instruction_id, violation, execution_id, now) ==
    record_event(tr, "policy_violation",
                 [instruction_id |-> instruction_id, violation |-> violation,
                  severity |-> Get(violation, "severity", "warning")],
                 instruction_id, execution_id, now)

record_arbiter_decision(tr, instruction_id, decision, reason, execution_id, now) ==
    record_event(tr, "arbiter_decision",
                 [instruction_id |-> instruction_id, decision |-> decision, reason |-> reason],
                 instruction_id, execution_id, now)

record_error(tr, instruction_id, error, error_type, execution_id, now) ==
    record_event(tr, "error",
                 [instruction_id |-> instruction_id, error |-> error, error_type |-> error_type],
                 instruction_id, execution_id, now)

record_fallback_triggered(tr, instruction_id, reason, execution_id, now) ==
    record_event(tr, "fallback_triggered",
                 [instruction_id |-> instruction_id, reason |-> reason],
                 instruction_id, execution_id, now)

record_interrupt(tr, instruction_id, reason, execution_id, now) ==
    record_event(tr, "interrupt",
                 [instruction_id |-> instruction_id, reason |-> reason],
                 instruction_id, execution_id, now)

\* FlightDataRecorder.clear_traces
clear_traces(tr) == << >>

\* get_execution_trace selecting on the instruction id, as get_instruction_trace does
get_execution_trace_by_instruction(tr, execution_id) ==
    LET F[i \in 0..Len(tr)] ==
            IF i = 0 THEN << >>
            ELSE IF tr[i].instruction_id = execution_id THEN Append(F[i - 1], tr[i])
            ELSE F[i - 1]
    IN  F[Len(tr)]

get_execution_trace(tr, execution_id) ==
    LET F[i \in 0..Len(tr)] ==
            IF i = 0 THEN << >>
            ELSE IF tr[i].execution_id = execution_id THEN Append(F[i - 1], tr[i])
            ELSE F[i - 1]
    IN  F[Len(tr)]

\* summary["event_types"] after the loop of get_trace_summary over the events
EventTypeCounts(events) ==
    LET F[i \in 0..Len(events)] ==
            IF i = 0 THEN EmptyDict
            ELSE DictUpdate(F[i - 1],
                            [k \in {events[i].event_type} |-> Get(F[i - 1], events[i].event_type, 0) + 1])
    IN  F[Len(events)]

\* the data of the events of one type, in order: the list get_trace_summary appends to
EventData(events, event_type) ==
    LET F[i \in 0..Len(events)] ==
            IF i = 0 THEN << >>
            ELSE IF events[i].event_type = event_type THEN Append(F[i - 1], events[i].data)
            ELSE F[i - 1]
    IN  F[Len(events)]

\* get_trace_summary from the selected events on; list(set) is kept as the set
Summary(execution_id, events) ==
    [execution_id      |-> execution_id,
     total_events      |-> Len(events),
     event_types       |-> EventTypeCounts(events),
     instructions      |-> {events[i].instruction_id : i \in DOMAIN events} \ {None},
     errors            |-> EventData(events, "error"),
     policy_violations |-> EventData(events, "policy_violation"),
     fallbacks         |-> EventData(events, "fallback_triggered"),
     interrupts        |-> EventData(events, "interrupt")]

\* get_trace_summary summarising the whole store
get_trace_summary_whole_store(tr, execution_id) == Summary(execution_id, tr)

\* FlightDataRecorder.get_trace_summary
get_trace_summary(tr, execution_id) == Summary(execution_id, get_execution_trace(tr, execution_id))

----------------------------------------------------------------------------
(* ArbiterGraph *)

\* self.flight_recorder of an ArbiterGraph built with enable_observability=False
NoRecorder == <<[flight_recorder |-> None]>>

\* `if self.flight_recorder:` before a call of the recorder: the events after the call
IfRecorder(tr, after) == IF tr = NoRecorder THEN tr ELSE after

\* _determine_violation_action with its two tests in the other order
_determine_violation_action_fallback_first(rule_results) ==
    IF SomeFailing(rule_results, "action", "FALLBACK") THEN "FALLBACK"
    ELSE IF SomeFailing(rule_results, "severity", "critical") THEN "INTERRUPT"
    ELSE "LOG"

\* ArbiterGraph._determine_violation_action
_determine_violation_action(rule_results) ==
    LET critical_violations == {i \in DOMAIN rule_results :
                                   /\ Failed(rule_results[i])
                                   /\ Get(rule_results[i], "severity", None) = "critical"}
        fallback_violations == {i \in DOMAIN rule_results :
                                   /\ Failed(rule_results[i])
                                   /\ Get(rule_results[i], "action", None) = "FALLBACK"}
    IN  IF critical_violations # {} THEN "INTERRUPT"
        ELSE IF fallback_violations # {} THEN "FALLBACK"
        ELSE "LOG"

\* _find_fallback_instruction settling for any registered binding
_find_fallback_instruction_any_binding(bindings) ==
    DOMAIN bindings # {}

\* ArbiterGraph._find_fallback_instruction: is some registered binding of type FALLBACK
_find_fallback_instruction(bindings) ==
    \E id \in DOMAIN bindings : bindings[id].instruction_type = "FALLBACK"

\* a clause `except RuntimeError` in its place
except_RuntimeError(error_type) == error_type = "RuntimeError"

\* the clause `except Exception` of _execute_instruction: the exception types it catches
except_Exception(error_type) == error_type \in {"ValueError", "RuntimeError", "TypeError"}

\* the LOG branch with add_policy_violation placed under `if self.flight_recorder:` too
RECURSIVE LogViolations_only_when_recording(_, _, _, _, _, _)
LogViolations_only_when_recording(st, tr, rule_results, i, instruction_id, ctx) ==
    IF i > Len(rule_results) THEN [state |-> st, traces |-> tr]
    ELSE IF Failed(rule_results[i]) /\ tr # NoRecorder
    THEN LogViolations_only_when_recording(
             add_policy_violation(st, rule_results[i], ctx.now),
             record_policy_violation(tr, instruction_id, Stamped(rule_results[i], ctx.now),
                                     ctx.execution_id, ctx.now),
             rule_results, i + 1, instruction_id, ctx)
    ELSE LogViolations_only_when_recording(st, tr, rule_results, i + 1, instruction_id, ctx)

\* the LOG branch of _arbiter_function: the failing results, stamped, are appended to the
\* violations and recorded, one after the other
RECURSIVE LogViolations(_, _, _, _, _, _)
LogViolations(st, tr, rule_results, i, instruction_id, ctx) ==
    IF i > Len(rule_results) THEN [state |-> st, traces |-> tr]
    ELSE IF Failed(rule_results[i])
    THEN LogViolations(add_policy_violation(st, rule_results[i], ctx.now),
                       IfRecorder(tr, record_policy_violation(tr, instruction_id,
                                                              Stamped(rule_results[i], ctx.now),
                                                              ctx.execution_id, ctx.now)),
                       rule_results, i + 1, instruction_id, ctx)
    ELSE LogViolations(st, tr, rule_results, i + 1, instruction_id, ctx)

\* add_policy_violation stamps the result dict itself, which the list held by the
\* policy_evaluation event of the step still refers to
StampFailed(rule_results, now) ==
    [i \in DOMAIN rule_results |->
        IF Failed(rule_results[i]) THEN Stamped(rule_results[i], now) ELSE rule_results[i]]

\* _arbiter_function from the branch on the decision: the action is carried out and the
\* decision recorded.  ctx is [now, execution_id].
EnforceDecision(binding, st, tr1, rule_results, allowed, action, ctx) ==
    LET logged == LogViolations(st, tr1, rule_results, 1, binding.id, ctx)
        st2 == CASE action = "INTERRUPT" -> trigger_interrupt(st, <<"Policy violation">>, ctx.now)
                 [] action = "FALLBACK"  -> trigger_fallback(st, <<"Policy violation">>, ctx.now)
                 [] action = "LOG"       -> logged.state
                 [] OTHER                -> st
        tr2 == CASE action = "INTERRUPT" ->
                        IfRecorder(tr1, record_interrupt(tr1, binding.id, <<"Policy violation">>,
                                                         ctx.execution_id, ctx.now))
                 [] action = "FALLBACK" ->
                        IfRecorder(tr1, record_fallback_triggered(tr1, binding.id,
                                                                  <<"Policy violation">>,
                                                                  ctx.execution_id, ctx.now))
                 [] action = "LOG" ->
                        IfRecorder(tr1,
                            [i \in DOMAIN logged.traces |->
                                IF i = Len(tr1)
                                THEN [tr1[i] EXCEPT !.data.rule_results = StampFailed(rule_results, ctx.now)]
                                ELSE logged.traces[i]])
                 [] OTHER -> tr1
        tr3 == IfRecorder(tr2, record_arbiter_decision(tr2, binding.id,
                                   IF allowed THEN "ALLOW" ELSE "BLOCK",
                                   <<"Policy evaluation completed">>, ctx.execution_id, ctx.now))
    IN  [state |-> st2, traces |-> tr3, execution_id |-> ctx.execution_id,
         resolved |-> TRUE, instruction |-> binding.id,
         instruction_type |-> binding.instruction_type,
         rule_results |-> rule_results, allowed |-> allowed, action |-> action]

\* _arbiter_function enforcing the action of the failing rules whether or not the
\* execution is allowed
JudgeInstruction_enforcing_every_failure(binding, st, tr0, rule_results, allowed, ctx) ==
    EnforceDecision(binding, st,
                    IfRecorder(tr0, record_policy_evaluation(tr0, binding.id, rule_results,
                                                             ctx.execution_id, ctx.now)),
                    rule_results, allowed,
                    IF \A i \in DOMAIN rule_results : ~Failed(rule_results[i]) THEN "ALLOW"
                    ELSE _determine_violation_action(rule_results),
                    ctx)

\* _arbiter_function from the evaluation of the rules of the resolved binding on: the
\* evaluation is recorded and the action chosen
JudgeInstruction(binding, st, tr0, rule_results, allowed, ctx) ==
    EnforceDecision(binding, st,
                    IfRecorder(tr0, record_policy_evaluation(tr0, binding.id, rule_results,
                                                             ctx.execution_id, ctx.now)),
                    rule_results, allowed,
                    IF allowed THEN "ALLOW" ELSE _determine_violation_action(rule_results),
                    ctx)

\* _arbiter_function recording a decision also when it resolves no binding
_arbiter_function_deciding_anyway(config, bindings, self_execution_id, st, tr, now) ==
    LET execution_id == IF self_execution_id = None THEN st.os_metadata.execution_id
                        ELSE self_execution_id
        tr0 == IfRecorder(tr, record_event(tr, "arbiter_activation", [execution_id |-> execution_id],
                                           None, execution_id, now))
        current_instruction == st.os_metadata.current_instruction
        unresolved == [state |-> st,
                       traces |-> IfRecorder(tr0, record_arbiter_decision(tr0, current_instruction,
                                      "BLOCK", <<"Policy evaluation completed">>, execution_id, now)),
                       execution_id |-> execution_id,
                       resolved |-> FALSE, instruction |-> current_instruction]
    IN  IF current_instruction = None THEN unresolved
        ELSE IF current_instruction \notin DOMAIN bindings THEN unresolved
        ELSE JudgeInstruction(
                 bindings[current_instruction], st, tr0,
                 evaluate_rules(config, bindings[current_instruction].instruction_type, to_dict(st)),
                 should_allow_execution(config, bindings[current_instruction].instruction_type,
                                        to_dict(st))[1],
                 [now |-> now, execution_id |-> execution_id])

\* ArbiterGraph._arbiter_function(state): the record, the events and the decision after the call
_arbiter_function(config, bindings, self_execution_id, st, tr, now) ==
    LET execution_id == IF self_execution_id = None THEN st.os_metadata.execution_id
                        ELSE self_execution_id
        tr0 == IfRecorder(tr, record_event(tr, "arbiter_activation", [execution_id |-> execution_id],
                                           None, execution_id, now))
        current_instruction == st.os_metadata.current_instruction
        unresolved == [state |-> st, traces |-> tr0, execution_id |-> execution_id,
                       resolved |-> FALSE, instruction |-> current_instruction]
    IN  IF current_instruction = None THEN unresolved
        ELSE IF current_instruction \notin DOMAIN bindings THEN unresolved
        ELSE JudgeInstruction(
                 bindings[current_instruction], st, tr0,
                 evaluate_rules(config, bindings[current_instruction].instruction_type, to_dict(st)),
                 should_allow_execution(config, bindings[current_instruction].instruction_type,
                                        to_dict(st))[1],
                 [now |-> now, execution_id |-> execution_id])

\* ArbiterGraph._execute_instruction(binding, state): the record and the events after the
\* call, and whether the call returned or let an exception through
_execute_instruction(bindings, binding, st, tr, impl, elapsed, now) ==
    LET execution_id == st.os_metadata.execution_id
        tr0 == IfRecorder(tr, record_instruction_start(tr, binding.id, binding.instruction_type,
                                                       execution_id, now))
        st1 == set_current_instruction(st, binding.id)
        r   == execute(binding, to_dict(st1), impl)
        \* result.get("tokens_used", 0) is None for a declared optional field left out
        tokens_is_none == /\ r.ok
                          /\ "tokens_used" \in binding.output_schema.optional
                          /\ "tokens_used" \notin DOMAIN impl.value
        st2 == IF r.ok THEN update_user_state(st1, r.value, now) ELSE st1
        exc == IF ~r.ok THEN r
               ELSE Exception("TypeError", <<"unsupported operand type(s) for +=">>, "accounting", 1)
    IN  IF r.ok /\ ~tokens_is_none
        THEN LET tokens_used == Get(r.value, "tokens_used", 0)
                 st3 == update_latency_metric(
                            update_resource_usage(st2, tokens_used, elapsed, now),
                            binding.id, elapsed, now)
                 tr1 == IfRecorder(tr0, record_instruction_end_ok(tr0, binding.id, elapsed,
                                                                  tokens_used, FALSE, now))
             IN  [state |-> st3, traces |-> tr1, propagated |-> FALSE, outcome |-> "completed",
                  invoked |-> 1, fallback |-> FALSE, error |-> FALSE]
        ELSE IF ~except_Exception(exc.error_type)
        THEN [state |-> st2, traces |-> tr0, propagated |-> TRUE, outcome |-> exc.stage,
              invoked |-> exc.invoked, fallback |-> FALSE, error |-> FALSE]
        ELSE LET st3 == add_error(st2, [instruction_id |-> binding.id,
                                        error |-> exc.message,
                                        error_type |-> exc.error_type,
                                        execution_time |-> elapsed], now)
                 tr1 == IfRecorder(tr0,
                            record_instruction_end_failed(
                                record_error(tr0, binding.id, exc.message, exc.error_type,
                                             execution_id, now),
                                binding.id, elapsed, exc.message, now))
                 signal == /\ binding.instruction_type \in {"TOOL_CALL", "GENERATE"}
                               /\ _find_fallback_instruction(bindings)
                 st4 == IF signal
                        THEN trigger_fallback(st3, <<"Error in ", binding.id, ": ">> \o exc.message, now)
                        ELSE st3
                 tr2 == IF signal
                        THEN IfRecorder(tr1, record_fallback_triggered(tr1, binding.id,
                                                 <<"Error: ">> \o exc.message, execution_id, now))
                        ELSE tr1
             IN  [state |-> st4, traces |-> tr2, propagated |-> FALSE, outcome |-> exc.stage,
                  invoked |-> exc.invoked, fallback |-> signal, error |-> TRUE]

----------------------------------------------------------------------------
(* Bounds and the inputs of the model *)

\* arbiter steps and wrapper executions per run
MaxSteps == 4

ExecutionId == "exec-1"

R_tokens_critical == Rule("tokens_critical", "resource_limit", [max_tokens |-> 1],
                          "INTERRUPT", "critical", << >>)

R_tokens_fallback == Rule("tokens_fallback", "resource_limit", [max_tokens |-> 1],
                          "FALLBACK", "warning", << >>)

R_tokens_log == Rule("tokens_log", "resource_limit", [max_tokens |-> 1],
                     "LOG", "warning", <<"GENERATE", "TOOL_CALL">>)

R_generate_critical == Rule("generate_critical", "resource_limit", [max_tokens |-> 1],
                            "INTERRUPT", "critical", <<"GENERATE">>)

R_tool_fallback == Rule("tool_fallback", "resource_limit", [max_tokens |-> 1],
                        "FALLBACK", "warning", <<"TOOL_CALL">>)

R_ill_typed == [Rule("ill_typed", "resource_limit", [max_tokens |-> 0],
                     "FALLBACK", "critical", << >>) EXCEPT !.ill_typed = {"max_tokens"}]

R_semantic == Rule("semantic", "semantic_safety",
                   [allowed_flows |-> <<"GENERATE->VERIFY->TOOL_CALL">>],
                   "INTERRUPT", "critical", <<"TOOL_CALL">>)

R_length == Rule("length", "content_aware", [max_length |-> 1],
                 "LOG", "warning", <<"GENERATE">>)

Policy(rules, strict_mode) == [rules |-> rules, strict_mode |-> strict_mode]

\* the policies of the governed runs
RunPolicies ==
    { Policy(<< >>, TRUE),
      Policy(<<R_tokens_critical, R_tokens_fallback>>, TRUE),
      Policy(<<R_tokens_critical, R_tokens_fallback>>, FALSE),
      Policy(<<R_tokens_log, R_tokens_fallback>>, TRUE),
      Policy(<<R_tokens_log, R_tokens_fallback>>, FALSE),
      Policy(<<R_tokens_log, R_ill_typed>>, TRUE),
      Policy(<<R_generate_critical, R_tool_fallback>>, TRUE),
      Policy(<<R_semantic, R_length>>, TRUE) }

B_generate_plan == Binding("generate_plan", "GENERATE", {"query"}, {"plan", "tokens_used"}, {})

B_call_tool == Binding("call_tool", "TOOL_CALL", {"plan"}, {"result"}, {})

B_recover == Binding("recover", "FALLBACK", {}, {"result"}, {})

B_GENERATE == Binding("GENERATE", "GENERATE", {"query"}, {"plan", "tokens_used"}, {})

B_TOOL_CALL == Binding("TOOL_CALL", "TOOL_CALL", {"plan"}, {"result"}, {})

Registry(set) == [id \in {b.id : b \in set} |-> CHOOSE b \in set : b.id = id]

\* the registries of the governed runs
RunBindings ==
    { Registry({B_generate_plan, B_call_tool, B_recover}),
      Registry({B_generate_plan, B_call_tool}),
      Registry({B_GENERATE, B_TOOL_CALL}) }

InitialStates == {[query |-> "q", content |-> <<"x", "y">>]}

\* what one call of the implementation of a binding may do, and the time the call takes
\* (time.time() - start_time, in ticks)
ImplChoices(binding) ==
    IF binding.instruction_type = "GENERATE"
    THEN {[kind |-> "raise", elapsed |-> 1],
          [kind |-> "dict", value |-> [plan |-> "p", tokens_used |-> 2], elapsed |-> 1],
          [kind |-> "dict", value |-> [plan |-> "p"], elapsed |-> 0]}
    ELSE {[kind |-> "raise", elapsed |-> 0],
          [kind |-> "scalar", value |-> "r", elapsed |-> 1]}

----------------------------------------------------------------------------
(* The governed run: ArbiterGraph.execute and the steps the scheduler      *)
(* makes in it.  The scheduler calls the arbiter with the record when it   *)
(* is about to run X, and then the wrapper of X; it may also run a wrapper *)
(* without asking the arbiter.                                             *)

NoHistory == [error_recorded |-> FALSE, fallback_signalled |-> FALSE, interrupt_issued |-> FALSE,
              wrapper_outcome |-> "none"]

Init ==
    /\ policy_config \in RunPolicies
    /\ instruction_bindings \in RunBindings
    /\ arbiter_execution_id = None
    /\ state = NewManagedState(ExecutionId, 0)
    /\ traces = << >>
    /\ clock = 0
    /\ phase = "idle"
    /\ about_to_run = None
    /\ steps = 0
    /\ last = [op |-> "none"]
    /\ hist = NoHistory
    /\ runs = EmptyDict

\* ArbiterGraph.execute, up to the invocation of the compiled graph
ExecuteStart(initial_state) ==
    /\ phase = "idle"
    /\ state' = update_user_state(NewManagedState(ExecutionId, clock), initial_state, clock)
    /\ arbiter_execution_id' = ExecutionId
    /\ traces' = record_event(traces, "execution_start", [execution_id |-> ExecutionId],
                              None, ExecutionId, clock)
    /\ phase' = "running"
    /\ clock' = clock + 1
    /\ last' = [op |-> "execute_start"]
    /\ UNCHANGED <<policy_config, instruction_bindings, about_to_run, steps, hist, runs>>

\* one call of the arbiter node with the record of the run
ArbiterCall(X) ==
    /\ LET out == _arbiter_function(policy_config, instruction_bindings, arbiter_execution_id,
                                    state, traces, clock)
       IN  /\ state' = out.state
           /\ traces' = out.traces
           /\ arbiter_execution_id' = out.execution_id
           /\ last' = [op |-> "arbiter", about |-> X, out |-> [out EXCEPT !.state = 0, !.traces = 0]]
           /\ hist' = IF ~out.resolved THEN hist
                      ELSE [hist EXCEPT
                              !.interrupt_issued = @ \/ out.action = "INTERRUPT",
                              !.fallback_signalled = @ \/ out.action = "FALLBACK"]
    /\ steps' = steps + 1
    /\ clock' = clock + 1

\* the scheduler is about to run X and calls the arbiter node with the record
ArbiterStep(X) ==
    /\ phase = "running"
    /\ steps < MaxSteps
    /\ about_to_run = None
    /\ ArbiterCall(X)
    /\ about_to_run' = X
    /\ UNCHANGED <<policy_config, instruction_bindings, phase, runs>>

\* one call of the wrapper of binding X with the record of the run
WrapperCall(X, impl) ==
    /\ LET out == _execute_instruction(instruction_bindings, instruction_bindings[X], state, traces,
                                       impl, impl.elapsed, clock)
       IN  /\ state' = out.state
           /\ traces' = out.traces
           /\ last' = [op |-> "execute", binding |-> X, governed |-> about_to_run = X,
                       impl |-> impl.kind,
                       out |-> [out EXCEPT !.state = 0, !.traces = 0]]
           /\ hist' = [hist EXCEPT !.error_recorded = @ \/ out.error,
                                   !.fallback_signalled = @ \/ out.fallback,
                                   !.wrapper_outcome = out.outcome]
    /\ steps' = steps + 1
    /\ clock' = clock + 1

\* the scheduler runs the wrapper of binding X
ExecuteInstruction(X, impl) ==
    /\ phase = "running"
    /\ steps < MaxSteps
    /\ about_to_run \in {None, X}
    /\ WrapperCall(X, impl)
    /\ about_to_run' = None
    /\ UNCHANGED <<policy_config, instruction_bindings, arbiter_execution_id, phase, runs>>

\* ArbiterGraph.execute, after the compiled graph has returned
ExecuteComplete ==
    /\ phase = "running"
    /\ about_to_run = None
    /\ traces' = record_event(traces, "execution_complete",
                              [execution_id |-> arbiter_execution_id, success |-> is_healthy(state)],
                              None, arbiter_execution_id, clock)
    /\ phase' = "completed"
    /\ clock' = clock + 1
    /\ last' = [op |-> "execute_complete", success |-> is_healthy(state)]
    /\ UNCHANGED <<policy_config, instruction_bindings, arbiter_execution_id, state,
                   about_to_run, steps, hist, runs>>

Next ==
    \/ \E initial_state \in InitialStates : ExecuteStart(initial_state)
    \/ \E X \in DOMAIN instruction_bindings : ArbiterStep(X)
    \/ \E X \in DOMAIN instruction_bindings :
          \E impl \in ImplChoices(instruction_bindings[X]) : ExecuteInstruction(X, impl)
    \/ ExecuteComplete

Spec == Init /\ [][Next]_vars

----------------------------------------------------------------------------
(* The policy engine called directly: decide(instructionType, state) on    *)
(* the rule lists of at most MaxRules rules and the snapshots below.       *)

MaxRules == 2

E_length == Rule("length", "content_aware", [max_length |-> 2], "LOG", "warning", <<"GENERATE">>)

E_length_100 == Rule("length_100", "content_aware", [max_length |-> 100],
                     "LOG", "warning", <<"GENERATE">>)

E_keyword == Rule("keyword", "content_aware", [sensitive_keywords |-> <<(<<"a", "b">>)>>],
                  "INTERRUPT", "critical", << >>)

E_tokens == Rule("tokens", "resource_limit", [max_tokens |-> 1, max_execution_time |-> 1],
                 "FALLBACK", "warning", <<"TOOL_CALL", "GENERATE">>)

E_semantic == Rule("semantic", "semantic_safety",
                   [allowed_flows |-> <<"GENERATE->VERIFY->TOOL_CALL">>],
                   "INTERRUPT", "critical", <<"TOOL_CALL">>)

E_semantic_direct == Rule("semantic_direct", "semantic_safety",
                          [allowed_flows |-> <<"GENERATE->TOOL_CALL">>],
                          "LOG", "info", <<"VERIFY">>)

E_resilience == Rule("resilience", "conditional_resilience", EmptyDict,
                     "FALLBACK", "error", <<"VERIFY", "TOOL_CALL">>)

E_custom == Rule("custom", "custom", EmptyDict, "LOG", "info", << >>)

E_ill_typed == [Rule("ill_typed", "content_aware", [max_length |-> 0],
                     "FALLBACK", "warning", <<"FALLBACK", "GENERATE">>)
                   EXCEPT !.ill_typed = {"max_length"}]

E_disabled == [Rule("disabled", "resource_limit", [max_tokens |-> 0],
                    "INTERRUPT", "critical", << >>) EXCEPT !.enabled = FALSE]

E_twice == Rule("twice", "resource_limit", [max_tokens |-> 2],
                "LOG", "warning", <<"GENERATE", "GENERATE">>)

EngineRules == {E_length, E_length_100, E_keyword, E_tokens, E_semantic, E_semantic_direct, E_resilience,
                E_custom, E_ill_typed, E_disabled, E_twice}

RuleLists == UNION {[1..n -> EngineRules] : n \in 0..MaxRules}

EnginePolicies == {Policy(rules, strict) : rules \in RuleLists, strict \in BOOLEAN}

Meta(recent, tokens, time) ==
    [NewStateMetadata(ExecutionId, 0) EXCEPT !.recent_instructions = recent,
                                             !.total_tokens = tokens,
                                             !.execution_time = time]

Snapshots ==
    { EmptyDict,
      [content |-> <<"x", "A", "b">>],
      [content |-> <<"a", "x", "b">>],
      [content |-> <<"a", "x">>],
      [content |-> [i \in 1..150 |-> "x"]],
      [total_tokens |-> 2],
      [total_tokens |-> 3, execution_time |-> 2],
      [execution_time |-> 2, content |-> <<"a">>],
      [total_tokens |-> 0, os_metadata |-> Meta(<< >>, 3, 0)],
      [os_metadata |-> Meta(<<"VERIFY", "GENERATE">>, 0, 0)],
      [os_metadata |-> Meta(<<"GENERATE", "VERIFY">>, 0, 2)],
      [verify_failed |-> TRUE, verification_confidence |-> 5],
      [verify_failed |-> TRUE, verification_confidence |-> 8],
      [verify_failed |-> FALSE, verification_confidence |-> 1],
      [user_state |-> [content |-> <<"x", "A", "b">>], os_metadata |-> Meta(<<"GENERATE">>, 2, 1),
       system_state |-> EmptyDict] }

InitEngine ==
    /\ policy_config \in EnginePolicies
    /\ instruction_bindings = EmptyDict
    /\ arbiter_execution_id = None
    /\ state = NewManagedState(ExecutionId, 0)
    /\ traces = << >>
    /\ clock = 0
    /\ phase = "engine"
    /\ about_to_run = None
    /\ steps = 0
    /\ last = [op |-> "none"]
    /\ hist = NoHistory
    /\ runs = EmptyDict

\* PolicyEngine.should_allow_execution called by a client of the engine
Decide(instruction_type, snapshot) ==
    /\ phase = "engine"
    /\ last.op = "none"
    /\ LET out == should_allow_execution(policy_config, instruction_type, snapshot)
       IN  last' = [op |-> "decide", instruction_type |-> instruction_type, snapshot |-> snapshot,
                    allowed |-> out[1], results |-> out[2]]
    /\ UNCHANGED <<policy_config, instruction_bindings, arbiter_execution_id, state, traces,
                   clock, phase, about_to_run, steps, hist, runs>>

NextEngine == \E instruction_type \in InstructionTypes, snapshot \in Snapshots :
                  Decide(instruction_type, snapshot)

SpecEngine == InitEngine /\ [][NextEngine]_vars

----------------------------------------------------------------------------
(* One record through many steps: the arbiter node and the wrappers called *)
(* on the record of a run, in any order, for longer than the governed runs *)
(* above.                                                                  *)

\* arbiter steps and wrapper executions on the record
MaxHistory == 7

HistoryPolicy == Policy(<<R_tokens_log, R_tool_fallback>>, FALSE)

HistoryBindings == Registry({B_generate_plan, B_call_tool})

\* what one call of the implementation of a binding may do
HistoryImpls(binding) ==
    IF binding.instruction_type = "GENERATE"
    THEN {[kind |-> "raise", elapsed |-> 1],
          [kind |-> "dict", value |-> [plan |-> "p", tokens_used |-> 2], elapsed |-> 1]}
    ELSE {[kind |-> "scalar", value |-> "r", elapsed |-> 1]}

InitHistory ==
    /\ policy_config = HistoryPolicy
    /\ instruction_bindings = HistoryBindings
    /\ arbiter_execution_id = ExecutionId
    /\ state = update_user_state(NewManagedState(ExecutionId, 0), [query |-> "q"], 0)
    /\ traces = << >>
    /\ clock = 1
    /\ phase = "history"
    /\ about_to_run = None
    /\ steps = 0
    /\ last = [op |-> "none"]
    /\ hist = NoHistory
    /\ runs = EmptyDict

HistoryArbiterStep ==
    /\ phase = "history"
    /\ steps < MaxHistory
    /\ ArbiterCall(None)
    /\ UNCHANGED <<policy_config, instruction_bindings, phase, about_to_run, runs>>

HistoryExecute(X, impl) ==
    /\ phase = "history"
    /\ steps < MaxHistory
    /\ WrapperCall(X, impl)
    /\ UNCHANGED <<policy_config, instruction_bindings, arbiter_execution_id, phase,
                   about_to_run, runs>>

NextHistory ==
    \/ HistoryArbiterStep
    \/ \E X \in DOMAIN instruction_bindings :
          \E impl \in HistoryImpls(instruction_bindings[X]) : HistoryExecute(X, impl)

SpecHistory == InitHistory /\ [][NextHistory]_vars

----------------------------------------------------------------------------
(* The Flight Recorder used by several executions: clients record events    *)
(* under their execution ids, in any interleaving, and clear the store.     *)
(* hist keeps, for each execution id, the events recorded under it since    *)
(* the last clear.                                                          *)

\* operations on the recorder
MaxEvents == 4

RecorderExecutions == {"exec-1", "exec-2"}

EventTypes == {"instruction_start", "instruction_end", "policy_violation", "error",
               "fallback_triggered", "interrupt"}

NothingRecorded == [by_exec |-> [E \in RecorderExecutions |-> << >>], cleared |-> FALSE]

InitRecorder ==
    /\ policy_config = Policy(<< >>, TRUE)
    /\ instruction_bindings = EmptyDict
    /\ arbiter_execution_id = None
    /\ state = NewManagedState(ExecutionId, 0)
    /\ traces = << >>
    /\ clock = 0
    /\ phase = "recorder"
    /\ about_to_run = None
    /\ steps = 0
    /\ last = [op |-> "none"]
    /\ hist = NothingRecorded
    /\ runs = EmptyDict

\* the store after one record_* call made under the execution id E (None if the call
\* passes no execution id)
Recorded(after, E) ==
    /\ phase = "recorder"
    /\ steps < MaxEvents
    /\ traces' = after
    /\ hist' = IF E \in RecorderExecutions
               THEN [hist EXCEPT !.by_exec[E] = Append(@, after[Len(after)])]
               ELSE hist
    /\ last' = [op |-> "record", execution_id |-> E]
    /\ steps' = steps + 1
    /\ clock' = clock + 1
    /\ UNCHANGED <<policy_config, instruction_bindings, arbiter_execution_id, state, phase,
                   about_to_run, runs>>

RecordInstructionStart(E) ==
    Recorded(record_instruction_start(traces, "call_tool", "TOOL_CALL", E, clock), E)

RecordInstructionEnd ==
    Recorded(record_instruction_end_ok(traces, "call_tool", 1, 0, TRUE, clock), None)

RecordPolicyViolation(E) ==
    Recorded(record_policy_violation(traces, "call_tool", [rule_id |-> "length", passed |-> FALSE],
                                     E, clock), E)

RecordError(E) ==
    Recorded(record_error(traces, "call_tool", <<"implementation error">>, "RuntimeError", E, clock), E)

RecordFallbackTriggered(E) ==
    Recorded(record_fallback_triggered(traces, "call_tool", <<"Policy violation">>, E, clock), E)

RecordInterrupt(E) ==
    Recorded(record_interrupt(traces, "call_tool", <<"Policy violation">>, E, clock), E)

ClearTraces ==
    /\ phase = "recorder"
    /\ steps < MaxEvents
    /\ traces' = clear_traces(traces)
    /\ hist' = [NothingRecorded EXCEPT !.cleared = TRUE]
    /\ last' = [op |-> "clear"]
    /\ steps' = steps + 1
    /\ clock' = clock + 1
    /\ UNCHANGED <<policy_config, instruction_bindings, arbiter_execution_id, state, phase,
                   about_to_run, runs>>

NextRecorder ==
    \/ \E E \in RecorderExecutions : RecordInstructionStart(E)
    \/ RecordInstructionEnd
    \/ \E E \in RecorderExecutions : RecordPolicyViolation(E)
    \/ \E E \in RecorderExecutions : RecordError(E)
    \/ \E E \in RecorderExecutions : RecordFallbackTriggered(E)
    \/ \E E \in RecorderExecutions : RecordInterrupt(E)
    \/ ClearTraces

SpecRecorder == InitRecorder /\ [][NextRecorder]_vars

----------------------------------------------------------------------------
(* Several runs through one ArbiterGraph: execute is called once per run,   *)
(* each run has its own record, and the scheduler interleaves the steps of  *)
(* the runs (never two steps of the same run at once).                      *)

\* arbiter steps and wrapper executions, over all the runs
MaxRunSteps == 3

RunIds == {"exec-1", "exec-2"}

RunsPolicy == Policy(<<R_tokens_log>>, TRUE)

RunsBindings == Registry({B_call_tool})

RunsImpls == {[kind |-> "raise", elapsed |-> 0], [kind |-> "scalar", value |-> "r", elapsed |-> 1]}

InitRuns ==
    /\ policy_config = RunsPolicy
    /\ instruction_bindings = RunsBindings
    /\ arbiter_execution_id = None
    /\ state = NewManagedState(ExecutionId, 0)
    /\ traces = << >>
    /\ clock = 0
    /\ phase = "runs"
    /\ about_to_run = None
    /\ steps = 0
    /\ last = [op |-> "none"]
    /\ hist = [completed |-> {}]
    /\ runs = EmptyDict

\* ArbiterGraph.execute for the run E, up to the invocation of the compiled graph
RunStart(E) ==
    /\ phase = "runs"
    /\ E \notin DOMAIN runs
    /\ runs' = DictUpdate(runs, [k \in {E} |->
                   update_user_state(NewManagedState(E, clock), [plan |-> "p"], clock)])
    /\ arbiter_execution_id' = E
    /\ traces' = record_event(traces, "execution_start", [execution_id |-> E], None, E, clock)
    /\ last' = [op |-> "start", run |-> E]
    /\ clock' = clock + 1
    /\ UNCHANGED <<policy_config, instruction_bindings, state, phase, about_to_run, steps, hist>>

\* the arbiter node called with the record of the run E
RunArbiterStep(E) ==
    /\ phase = "runs"
    /\ E \in DOMAIN runs \ hist.completed
    /\ steps < MaxRunSteps
    /\ LET out == _arbiter_function(policy_config, instruction_bindings, arbiter_execution_id,
                                    runs[E], traces, clock)
       IN  /\ runs' = [runs EXCEPT ![E] = out.state]
           /\ traces' = out.traces
           /\ arbiter_execution_id' = out.execution_id
           /\ last' = [op |-> "arbiter", run |-> E, resolved |-> out.resolved]
    /\ steps' = steps + 1
    /\ clock' = clock + 1
    /\ UNCHANGED <<policy_config, instruction_bindings, state, phase, about_to_run, hist>>

\* the wrapper of binding X called with the record of the run E
RunExecute(E, X, impl) ==
    /\ phase = "runs"
    /\ E \in DOMAIN runs \ hist.completed
    /\ steps < MaxRunSteps
    /\ LET out == _execute_instruction(instruction_bindings, instruction_bindings[X], runs[E], traces,
                                       impl, impl.elapsed, clock)
       IN  /\ runs' = [runs EXCEPT ![E] = out.state]
           /\ traces' = out.traces
           /\ last' = [op |-> "execute", run |-> E, binding |-> X, outcome |-> out.outcome]
    /\ steps' = steps + 1
    /\ clock' = clock + 1
    /\ UNCHANGED <<policy_config, instruction_bindings, arbiter_execution_id, state, phase,
                   about_to_run, hist>>

\* ArbiterGraph.execute for the run E, after the compiled graph has returned
RunComplete(E) ==
    /\ phase = "runs"
    /\ E \in DOMAIN runs \ hist.completed
    /\ traces' = record_event(traces, "execution_complete",
                              [execution_id |-> arbiter_execution_id, success |-> is_healthy(runs[E])],
                              None, arbiter_execution_id, clock)
    /\ hist' = [hist EXCEPT !.completed = @ \cup {E}]
    /\ last' = [op |-> "complete", run |-> E]
    /\ clock' = clock + 1
    /\ UNCHANGED <<policy_config, instruction_bindings, arbiter_execution_id, state, phase,
                   about_to_run, steps, runs>>

NextRuns ==
    \/ \E E \in RunIds : RunStart(E)
    \/ \E E \in RunIds : RunArbiterStep(E)
    \/ \E E \in RunIds, X \in DOMAIN instruction_bindings, impl \in RunsImpls : RunExecute(E, X, impl)
    \/ \E E \in RunIds : RunComplete(E)

SpecRuns == InitRuns /\ [][NextRuns]_vars

----------------------------------------------------------------------------
(* Saving and loading the record of a run: after some wrapper executions    *)
(* and arbiter steps the record is taken through to_dict / from_dict and    *)
(* through serialize / deserialize.                                         *)

\* arbiter steps and wrapper executions before the record is saved
MaxSavedSteps == 2

SavedPolicy == Policy(<<R_length, R_tool_fallback>>, TRUE)

SavedBindings == Registry({B_call_tool, B_recover})

\* what the implementation of a binding may return: values of the types its output model
\* may declare
SavedImpls ==
    {[kind |-> "raise", elapsed |-> 0]} \cup
    {[kind |-> "scalar", value |-> v, elapsed |-> 1] :
        v \in {PyValue("str", "r"), PyValue("list", "1,2"), PyValue("tuple", "1,2"),
               PyValue("datetime", "2026-01-01 00:00:00")}}

InitSaved ==
    /\ policy_config = SavedPolicy
    /\ instruction_bindings = SavedBindings
    /\ arbiter_execution_id = ExecutionId
    /\ state = update_user_state(NewManagedState(ExecutionId, 0), [plan |-> PyValue("str", "p")], 0)
    /\ traces = << >>
    /\ clock = 1
    /\ phase = "saving"
    /\ about_to_run = None
    /\ steps = 0
    /\ last = [op |-> "none"]
    /\ hist = NoHistory
    /\ runs = EmptyDict

SavedArbiterStep ==
    /\ phase = "saving"
    /\ steps < MaxSavedSteps
    /\ ArbiterCall(None)
    /\ UNCHANGED <<policy_config, instruction_bindings, phase, about_to_run, runs>>

SavedExecute(X, impl) ==
    /\ phase = "saving"
    /\ steps < MaxSavedSteps
    /\ WrapperCall(X, impl)
    /\ UNCHANGED <<policy_config, instruction_bindings, arbiter_execution_id, phase,
                   about_to_run, runs>>

\* the record is saved and loaded, both ways
SaveAndLoad ==
    /\ phase = "saving"
    /\ last.op # "save_and_load"
    /\ last' = [op |-> "save_and_load",
                via_dict |-> from_dict(to_dict(state)),
                via_json |-> deserialize(serialize(state))]
    /\ UNCHANGED <<policy_config, instruction_bindings, arbiter_execution_id, state, traces,
                   clock, phase, about_to_run, steps, hist, runs>>

NextSaved ==
    \/ SavedArbiterStep
    \/ \E X \in DOMAIN instruction_bindings : \E impl \in SavedImpls : SavedExecute(X, impl)
    \/ SaveAndLoad

SpecSaved == InitSaved /\ [][NextSaved]_vars

----------------------------------------------------------------------------
(* Building the graph: bindings are added, edges, entry and finish points   *)
(* are set, and the arbiter node is called with records handed to the       *)
(* graph.  hist.nodes and hist.edges are the topology of the underlying     *)
(* graph.                                                                   *)

\* construction calls and arbiter calls on one graph
MaxBuildSteps == 3

\* a second binding with the id of B_recover
B_recover_generate == Binding("recover", "GENERATE", {"query"}, {"plan", "tokens_used"}, {})

BuildBindings == {B_generate_plan, B_recover, B_recover_generate}

\* the instruction ids named in the calls; no binding has the id "ghost"
BuildIds == {"generate_plan", "recover", "ghost"}

Dependencies == {<< >>, <<"generate_plan">>, <<"ghost">>}

InitBuild ==
    /\ policy_config = RunsPolicy
    /\ instruction_bindings = EmptyDict
    /\ arbiter_execution_id = None
    /\ state = NewManagedState(ExecutionId, 0)
    /\ traces = << >>
    /\ clock = 1
    /\ phase = "building"
    /\ about_to_run = None
    /\ steps = 0
    /\ last = [op |-> "none"]
    /\ hist = DictUpdate(NoHistory, [nodes |-> {"arbiter"}, edges |-> {}])
    /\ runs = EmptyDict

\* the frame of a construction call
Built(op) ==
    /\ phase = "building"
    /\ steps < MaxBuildSteps
    /\ steps' = steps + 1
    /\ last' = op
    /\ UNCHANGED <<policy_config, arbiter_execution_id, state, traces, clock, phase,
                   about_to_run, runs>>

\* ArbiterGraph.add_instruction(binding, dependencies).  The binding is stored first; the
\* underlying graph then rejects a node name it already has (StateGraph.add_node raises
\* ValueError), which ends the call.
AddInstruction(binding, dependencies) ==
    LET raised == binding.id \in hist.nodes
        stored == DictUpdate(instruction_bindings, [id \in {binding.id} |-> binding])
        wired  == IF raised THEN {}
                  ELSE {<<dep, binding.id>> : dep \in Range(dependencies) \cap DOMAIN stored}
    IN  /\ instruction_bindings' = stored
        /\ hist' = [hist EXCEPT !.nodes = @ \cup {binding.id}, !.edges = @ \cup wired]
        /\ Built([op |-> "add_instruction", id |-> binding.id, named |-> Range(dependencies),
                  registered |-> DOMAIN instruction_bindings, raised |-> raised])

\* ArbiterGraph.add_edge(from_instruction, to_instruction)
AddEdge(from_instruction, to_instruction) ==
    LET found == /\ from_instruction \in DOMAIN instruction_bindings
                 /\ to_instruction \in DOMAIN instruction_bindings
    IN  /\ hist' = IF found THEN [hist EXCEPT !.edges = @ \cup {<<from_instruction, to_instruction>>}]
                   ELSE hist
        /\ Built([op |-> "add_edge", id |-> None, named |-> {from_instruction, to_instruction},
                  registered |-> DOMAIN instruction_bindings, raised |-> ~found])
        /\ UNCHANGED instruction_bindings

\* ArbiterGraph.set_entry_point(instruction_id)
SetEntryPoint(instruction_id) ==
    LET found == instruction_id \in DOMAIN instruction_bindings
    IN  /\ hist' = IF found THEN [hist EXCEPT !.edges = @ \cup {<<"__start__", instruction_id>>}]
                   ELSE hist
        /\ Built([op |-> "set_entry_point", id |-> None, named |-> {instruction_id},
                  registered |-> DOMAIN instruction_bindings, raised |-> ~found])
        /\ UNCHANGED instruction_bindings

\* ArbiterGraph.set_finish_point(instruction_id)
SetFinishPoint(instruction_id) ==
    LET found == instruction_id \in DOMAIN instruction_bindings
    IN  /\ hist' = IF found THEN [hist EXCEPT !.edges = @ \cup {<<instruction_id, "__end__">>}]
                   ELSE hist
        /\ Built([op |-> "set_finish_point", id |-> None, named |-> {instruction_id},
                  registered |-> DOMAIN instruction_bindings, raised |-> ~found])
        /\ UNCHANGED instruction_bindings

\* a record is handed to the graph: its current instruction is none, or an instruction id
ReceiveRecord(current_instruction) ==
    /\ phase = "building"
    /\ steps < MaxBuildSteps
    /\ last.op # "receive"
    /\ state' = [NewManagedState(ExecutionId, clock)
                    EXCEPT !.os_metadata.current_instruction = current_instruction]
    /\ last' = [op |-> "receive"]
    /\ steps' = steps + 1
    /\ clock' = clock + 1
    /\ UNCHANGED <<policy_config, instruction_bindings, arbiter_execution_id, traces, phase,
                   about_to_run, hist, runs>>

\* the arbiter node is called with the record
BuildArbiterStep ==
    /\ phase = "building"
    /\ steps < MaxBuildSteps
    /\ ArbiterCall(None)
    /\ UNCHANGED <<policy_config, instruction_bindings, phase, about_to_run, runs>>

NextBuild ==
    \/ \E binding \in BuildBindings, dependencies \in Dependencies :
          AddInstruction(binding, dependencies)
    \/ \E from_instruction \in BuildIds, to_instruction \in BuildIds :
          AddEdge(from_instruction, to_instruction)
    \/ \E instruction_id \in BuildIds : SetEntryPoint(instruction_id)
    \/ \E instruction_id \in BuildIds : SetFinishPoint(instruction_id)
    \/ \E current_instruction \in BuildIds \cup {None} : ReceiveRecord(current_instruction)
    \/ BuildArbiterStep

SpecBuild == InitBuild /\ [][NextBuild]_vars

----------------------------------------------------------------------------
(* One PolicyEngine shared by several runs.  The engine object holds the    *)
(* caches built by _compile_rule_caches; the evaluations of the runs read   *)
(* them and interleave rule by rule.  hist keeps the caches of the engine   *)
(* and, for each run, its evaluation in flight.                             *)

\* evaluations begun on the shared engine
MaxEvaluations == 3

SharedRuns == {"exec-1", "exec-2"}

SharedPolicies ==
    { Policy(<<E_semantic, E_keyword>>, TRUE),
      Policy(<<E_tokens, E_keyword>>, FALSE),
      Policy(<<E_semantic_direct, E_length>>, TRUE) }

SharedTypes == {"GENERATE", "TOOL_CALL"}

SharedSnapshots ==
    { [content |-> <<"x", "A", "b">>],
      [total_tokens |-> 3, execution_time |-> 2],
      [os_metadata |-> Meta(<<"VERIFY", "GENERATE">>, 0, 0)] }

\* PolicyEngine.__init__: the caches of the new engine.  setdefault makes a key of
\* _applies_map only for a tag that some enabled rule is stored under.
_compile_rule_caches(config) ==
    [_applies_map |-> [tag \in {t \in InstructionTypes \cup {"*"} : applies_map(config, t) # << >>}
                          |-> applies_map(config, tag)],
     _transition_matrix |-> transition_matrix(config)]

\* evaluate_rules, line 173: the rules looked up in the caches of the engine
LookedUp(engine, instruction_type) ==
    Get(engine._applies_map, instruction_type, << >>) \o Get(engine._applies_map, "*", << >>)

\* the lookup made with setdefault and `+=` instead: the bucket of the type is extended in place
AfterLookup_in_place(engine, instruction_type) ==
    [engine EXCEPT !._applies_map =
        DictUpdate(@, [t \in {instruction_type} |-> LookedUp(engine, instruction_type)])]

\* the caches after line 173: dict.get inserts no key, and list(...) copies each bucket
\* before the copies are joined
AfterLookup(engine, instruction_type) ==
    engine

\* _evaluate_rule on the shared engine: the semantic evaluator reads the _transition_matrix
\* the engine holds, the other evaluators read the rule and the snapshot only
EvaluateOn(engine, config, rule, instruction_type, snapshot) ==
    IF rule.rule_type = "semantic_safety"
    THEN RuleResult(rule, SemanticSafety(engine._transition_matrix, rule, instruction_type, snapshot))
    ELSE _evaluate_rule(config, rule, instruction_type, snapshot)

\* a run with no evaluation in flight
NotEvaluating == [instruction_type |-> None]

InitShared ==
    /\ policy_config \in SharedPolicies
    /\ instruction_bindings = EmptyDict
    /\ arbiter_execution_id = None
    /\ state = NewManagedState(ExecutionId, 0)
    /\ traces = << >>
    /\ clock = 0
    /\ phase = "shared"
    /\ about_to_run = None
    /\ steps = 0
    /\ last = [op |-> "none"]
    /\ hist = [engine |-> _compile_rule_caches(policy_config),
               in_flight |-> [E \in SharedRuns |-> NotEvaluating]]
    /\ runs = EmptyDict

\* the evaluations in flight after the run E has made a step: those of the other runs
\* have been interleaved with
Interleaved(in_flight, E, mine) ==
    [F \in SharedRuns |->
        IF F = E THEN mine
        ELSE IF in_flight[F] = NotEvaluating THEN NotEvaluating
        ELSE [in_flight[F] EXCEPT !.interleaved = TRUE]]

SharedFrame ==
    UNCHANGED <<policy_config, instruction_bindings, arbiter_execution_id, state, traces,
                clock, phase, about_to_run, runs>>

\* should_allow_execution called for the run E: evaluate_rules looks the rules up
SharedBegin(E, instruction_type, snapshot) ==
    /\ phase = "shared"
    /\ steps < MaxEvaluations
    /\ hist.in_flight[E] = NotEvaluating
    /\ hist' = [engine |-> AfterLookup(hist.engine, instruction_type),
                in_flight |-> Interleaved(hist.in_flight, E,
                                  [instruction_type |-> instruction_type, snapshot |-> snapshot,
                                   applicable_rules |-> LookedUp(hist.engine, instruction_type),
                                   results |-> << >>, interleaved |-> FALSE])]
    /\ steps' = steps + 1
    /\ last' = [op |-> "begin", run |-> E]
    /\ SharedFrame

\* the loop of evaluate_rules for the run E evaluates its next rule
SharedEvaluateRule(E) ==
    /\ phase = "shared"
    /\ hist.in_flight[E] # NotEvaluating
    /\ LET mine == hist.in_flight[E]
           i    == Len(mine.results) + 1
       IN  /\ i <= Len(mine.applicable_rules)
           /\ hist' = [hist EXCEPT !.in_flight =
                          Interleaved(@, E,
                              [mine EXCEPT !.results =
                                  Append(@, EvaluateOn(hist.engine, policy_config,
                                                       mine.applicable_rules[i],
                                                       mine.instruction_type, mine.snapshot))])]
    /\ last' = [op |-> "evaluate_rule", run |-> E]
    /\ UNCHANGED steps
    /\ SharedFrame

\* evaluate_rules has returned for the run E and should_allow_execution decides
SharedDecide(E) ==
    /\ phase = "shared"
    /\ hist.in_flight[E] # NotEvaluating
    /\ LET mine == hist.in_flight[E]
           out  == AllowDecision(policy_config, mine.results)
       IN  /\ Len(mine.results) = Len(mine.applicable_rules)
           /\ last' = [op |-> "decide", run |-> E, instruction_type |-> mine.instruction_type,
                       snapshot |-> mine.snapshot, interleaved |-> mine.interleaved,
                       allowed |-> out[1], results |-> out[2]]
    /\ hist' = [hist EXCEPT !.in_flight[E] = NotEvaluating]
    /\ UNCHANGED steps
    /\ SharedFrame

NextShared ==
    \/ \E E \in SharedRuns, instruction_type \in SharedTypes, snapshot \in SharedSnapshots :
          SharedBegin(E, instruction_type, snapshot)
    \/ \E E \in SharedRuns : SharedEvaluateRule(E)
    \/ \E E \in SharedRuns : SharedDecide(E)

SpecShared == InitShared /\ [][NextShared]_vars

----------------------------------------------------------------------------
(* The Flight Recorder under concurrent writers and a reader.  A call of    *)
(* record_event first constructs the TraceEvent and then appends it to      *)
(* self.traces (one list.append, which the interpreter performs as a        *)
(* whole); get_execution_trace walks self.traces element by element while   *)
(* the writers go on.  hist keeps the event each writer has constructed and *)
(* not yet appended, the events each writer has appended, and the position  *)
(* and the findings of the reader.                                          *)

\* calls of record_event, over all the writers
MaxAppends == 3

Writers == {"exec-1", "exec-2"}

WrittenTypes == {"instruction_start", "error"}

NotRecording == [event_type |-> None]

NotReading == [execution_id |-> None]

InitConcurrent ==
    /\ policy_config = Policy(<< >>, TRUE)
    /\ instruction_bindings = EmptyDict
    /\ arbiter_execution_id = None
    /\ state = NewManagedState(ExecutionId, 0)
    /\ traces = << >>
    /\ clock = 0
    /\ phase = "concurrent"
    /\ about_to_run = None
    /\ steps = 0
    /\ last = [op |-> "none"]
    /\ hist = [constructed |-> [E \in Writers |-> NotRecording],
               seen |-> [E \in Writers |-> << >>],
               by_exec |-> [E \in Writers |-> << >>],
               reader |-> NotReading]
    /\ runs = EmptyDict

ConcurrentFrame ==
    UNCHANGED <<policy_config, instruction_bindings, arbiter_execution_id, state, phase,
                about_to_run, runs>>

\* record_event called by the writer E: the TraceEvent is constructed
ConstructEvent(E, event_type) ==
    /\ phase = "concurrent"
    /\ steps < MaxAppends
    /\ hist.constructed[E] = NotRecording
    /\ hist' = [hist EXCEPT
                  !.constructed[E] = TraceEvent(event_type, [message |-> <<event_type>>],
                                                "call_tool", E, clock),
                  !.seen[E] = traces]
    /\ steps' = steps + 1
    /\ clock' = clock + 1
    /\ UNCHANGED <<traces, last>>
    /\ ConcurrentFrame

\* an append that writes back the list as the writer saw it when it began
\* (self.traces = self.traces + [event], the read and the write apart)
traces_append_copy(stored, seen, event) ==
    Append(seen, event)

\* self.traces.append(event): the event is added at the end of the list as it is now
traces_append(stored, seen, event) ==
    Append(stored, event)

\* record_event called by the writer E: the constructed event is appended
AppendEvent(E) ==
    /\ phase = "concurrent"
    /\ hist.constructed[E] # NotRecording
    /\ traces' = traces_append(traces, hist.seen[E], hist.constructed[E])
    /\ hist' = [hist EXCEPT !.constructed[E] = NotRecording,
                            !.seen[E] = << >>,
                            !.by_exec[E] = Append(@, hist.constructed[E])]
    /\ UNCHANGED <<steps, clock, last>>
    /\ ConcurrentFrame

\* get_execution_trace(E) is called: the comprehension starts at the head of the list
ReadBegin(E) ==
    /\ phase = "concurrent"
    /\ hist.reader = NotReading
    /\ hist' = [hist EXCEPT !.reader = [execution_id |-> E, index |-> 0, events |-> << >>,
                                        began_at |-> Len(traces)]]
    /\ UNCHANGED <<traces, steps, clock, last>>
    /\ ConcurrentFrame

\* the comprehension takes the next element of the list, if the list has one now
ReadNext ==
    /\ phase = "concurrent"
    /\ hist.reader # NotReading
    /\ hist.reader.index < Len(traces)
    /\ LET event == traces[hist.reader.index + 1]
       IN  hist' = [hist EXCEPT !.reader.index = @ + 1,
                                !.reader.events =
                                    IF event.execution_id = hist.reader.execution_id
                                    THEN Append(@, event) ELSE @]
    /\ UNCHANGED <<traces, steps, clock, last>>
    /\ ConcurrentFrame

\* the comprehension finds the list exhausted: get_execution_trace returns, and
\* get_trace_summary summarizes the list returned
ReadReturn ==
    /\ phase = "concurrent"
    /\ hist.reader # NotReading
    /\ hist.reader.index >= Len(traces)
    /\ last' = [op |-> "read", execution_id |-> hist.reader.execution_id,
                events |-> hist.reader.events, began_at |-> hist.reader.began_at,
                summary |-> Summary(hist.reader.execution_id, hist.reader.events),
                store |-> traces]
    /\ hist' = [hist EXCEPT !.reader = NotReading]
    /\ UNCHANGED <<traces, steps, clock>>
    /\ ConcurrentFrame

NextConcurrent ==
    \/ \E E \in Writers, event_type \in WrittenTypes : ConstructEvent(E, event_type)
    \/ \E E \in Writers : AppendEvent(E)
    \/ \E E \in Writers : ReadBegin(E)
    \/ ReadNext
    \/ ReadReturn

SpecConcurrent == InitConcurrent /\ [][NextConcurrent]_vars

----------------------------------------------------------------------------
(* One run kept twice: by an ArbiterGraph built with observability enabled  *)
(* (state, traces) and by one built with enable_observability=False (runs), *)
(* both given the same arbiter steps and wrapper executions, with the same  *)
(* implementations' behaviour, at the same times.  hist keeps, besides the  *)
(* history of the run, the tokens that the successful executions returned.  *)

\* arbiter steps and wrapper executions on the record
MaxTwinSteps == 3

TwinPolicies ==
    { Policy(<<R_generate_critical, R_tool_fallback>>, TRUE),
      Policy(<<R_generate_critical, R_tool_fallback>>, FALSE),
      Policy(<<R_tokens_log, R_tool_fallback>>, TRUE) }

\* the binding with the given max_retries
WithRetries(binding, max_retries) == DictUpdate(binding, [max_retries |-> max_retries])

B_summarize == Binding("summarize", "GENERATE", {"query"}, {"plan"}, {"tokens_used"})

TwinBindings ==
    Registry({WithRetries(B_generate_plan, 3), WithRetries(B_call_tool, 0),
              WithRetries(B_recover, 3), WithRetries(B_summarize, 5)})

\* ArbiterGraph.get_execution_trace(execution_id)
ArbiterGraph_get_execution_trace(tr, self_execution_id, execution_id) ==
    LET target_id == IF execution_id # None THEN execution_id ELSE self_execution_id
    IN  IF tr = NoRecorder THEN << >>
        ELSE IF target_id = None THEN << >>
        ELSE get_execution_trace(tr, target_id)

\* ArbiterGraph.get_trace_summary(execution_id)
ArbiterGraph_get_trace_summary(tr, self_execution_id, execution_id) ==
    LET target_id == IF execution_id # None THEN execution_id ELSE self_execution_id
    IN  IF tr = NoRecorder THEN EmptyDict
        ELSE IF target_id = None THEN EmptyDict
        ELSE get_trace_summary(tr, target_id)

\* the tokens_used of the output that the execution of the binding returns when the
\* implementation behaves as impl: the declared field as the implementation gave it
ReturnedTokens(binding, impl) ==
    IF /\ impl.kind = "dict"
       /\ "tokens_used" \in DOMAIN impl.value
       /\ "tokens_used" \in binding.output_schema.required \cup binding.output_schema.optional
    THEN impl.value["tokens_used"]
    ELSE 0

InitTwin ==
    /\ policy_config \in TwinPolicies
    /\ instruction_bindings = TwinBindings
    /\ arbiter_execution_id = ExecutionId
    /\ state = update_user_state(NewManagedState(ExecutionId, 0), [query |-> "q"], 0)
    /\ traces = << >>
    /\ clock = 1
    /\ phase = "twin"
    /\ about_to_run = None
    /\ steps = 0
    /\ last = [op |-> "none"]
    /\ hist = DictUpdate(NoHistory, [tokens_returned |-> 0])
    /\ runs = [state |-> update_user_state(NewManagedState(ExecutionId, 0), [query |-> "q"], 0),
               traces |-> NoRecorder,
               out |-> [op |-> "none"]]

\* what a call returns besides the record and the events
Outcome(out) == [out EXCEPT !.state = 0, !.traces = 0]

\* the arbiter node of each graph is called with its record
TwinArbiterStep ==
    /\ phase = "twin"
    /\ steps < MaxTwinSteps
    /\ LET out  == _arbiter_function(policy_config, instruction_bindings, arbiter_execution_id,
                                     state, traces, clock)
           dark == _arbiter_function(policy_config, instruction_bindings, arbiter_execution_id,
                                     runs.state, runs.traces, clock)
       IN  /\ state' = out.state
           /\ traces' = out.traces
           /\ arbiter_execution_id' = out.execution_id
           /\ runs' = [state |-> dark.state, traces |-> dark.traces, out |-> Outcome(dark)]
           /\ last' = [op |-> "arbiter", about |-> None, out |-> Outcome(out)]
           /\ hist' = IF ~out.resolved THEN hist
                      ELSE [hist EXCEPT
                              !.interrupt_issued = @ \/ out.action = "INTERRUPT",
                              !.fallback_signalled = @ \/ out.action = "FALLBACK"]
    /\ steps' = steps + 1
    /\ clock' = clock + 1
    /\ UNCHANGED <<policy_config, instruction_bindings, phase, about_to_run>>

\* the wrapper of binding X of each graph is called with its record
TwinExecute(X, impl) ==
    /\ phase = "twin"
    /\ steps < MaxTwinSteps
    /\ LET out  == _execute_instruction(instruction_bindings, instruction_bindings[X], state, traces,
                                        impl, impl.elapsed, clock)
           dark == _execute_instruction(instruction_bindings, instruction_bindings[X], runs.state,
                                        runs.traces, impl, impl.elapsed, clock)
       IN  /\ state' = out.state
           /\ traces' = out.traces
           /\ runs' = [state |-> dark.state, traces |-> dark.traces, out |-> Outcome(dark)]
           /\ last' = [op |-> "execute", binding |-> X, governed |-> FALSE, impl |-> impl.kind,
                       returned_tokens |-> ReturnedTokens(instruction_bindings[X], impl),
                       out |-> Outcome(out)]
           /\ hist' = [hist EXCEPT
                         !.error_recorded = @ \/ out.error,
                         !.fallback_signalled = @ \/ out.fallback,
                         !.wrapper_outcome = out.outcome,
                         !.tokens_returned =
                             IF out.outcome = "completed"
                             THEN @ + ReturnedTokens(instruction_bindings[X], impl) ELSE @]
    /\ steps' = steps + 1
    /\ clock' = clock + 1
    /\ UNCHANGED <<policy_config, instruction_bindings, arbiter_execution_id, phase, about_to_run>>

NextTwin ==
    \/ TwinArbiterStep
    \/ \E X \in DOMAIN instruction_bindings :
          \E impl \in ImplChoices(instruction_bindings[X]) : TwinExecute(X, impl)

SpecTwin == InitTwin /\ [][NextTwin]_vars

----------------------------------------------------------------------------
(* C1: under strict_mode, decide returns allowed = false exactly when some  *)
(* rule applicable to the instruction type (enabled, applies_to empty or    *)
(* containing the type) evaluates to a failing result.                      *)

ApplicableRuleFails(config, instruction_type, snapshot) ==
    \E rule \in Range(config.rules) :
        /\ rule.enabled
        /\ rule.applies_to = << >> \/ instruction_type \in Range(rule.applies_to)
        /\ ~_evaluate_rule(config, rule, instruction_type, snapshot).passed

C1_StrictDecide ==
    (last.op = "decide" /\ policy_config.strict_mode) =>
        (last.allowed = FALSE <=>
            ApplicableRuleFails(policy_config, last.instruction_type, last.snapshot))

C1_Witness ==
    /\ last.op = "decide"
    /\ policy_config.strict_mode
    /\ last.allowed = FALSE
    /\ \A i \in DOMAIN last.results : Get(last.results[i], "severity", None) # "critical"
    /\ \E rule \in Range(policy_config.rules) : ~rule.enabled

----------------------------------------------------------------------------
(* Reading the run *)

Meta_ == state.os_metadata

\* the position of the last event of the given type, 0 if there is none
LastIndexOf(tr, event_type) ==
    LET hits == {i \in DOMAIN tr : tr[i].event_type = event_type}
    IN  IF hits = {} THEN 0 ELSE CHOOSE i \in hits : \A j \in hits : j <= i

ArbiterActed == last.op = "arbiter" /\ last.out.resolved

BlockedStep == ArbiterActed /\ ~last.out.allowed

WrapperActed == last.op = "execute"

----------------------------------------------------------------------------
(* C2: a blocked arbiter step takes INTERRUPT if some failing result is     *)
(* critical, else FALLBACK if some failing result's action is FALLBACK,     *)
(* else LOG; the event it records before its decision is the one of that    *)
(* action.                                                                  *)

ExpectedAction(rule_results) ==
    IF SomeFailing(rule_results, "severity", "critical") THEN "INTERRUPT"
    ELSE IF SomeFailing(rule_results, "action", "FALLBACK") THEN "FALLBACK"
    ELSE "LOG"

EventOfAction(action) ==
    CASE action = "INTERRUPT" -> "interrupt"
      [] action = "FALLBACK"  -> "fallback_triggered"
      [] action = "LOG"       -> "policy_violation"

C2_ViolationPrecedence ==
    BlockedStep =>
        /\ last.out.action = ExpectedAction(last.out.rule_results)
        /\ traces[Len(traces)].event_type = "arbiter_decision"
        /\ traces[Len(traces) - 1].event_type = EventOfAction(ExpectedAction(last.out.rule_results))

C2_Witness ==
    /\ BlockedStep
    /\ SomeFailing(last.out.rule_results, "severity", "critical")
    /\ SomeFailing(last.out.rule_results, "action", "FALLBACK")
    /\ Meta_.interrupt_reason = <<"Policy violation">>
    /\ ~Meta_.fallback_triggered

----------------------------------------------------------------------------
(* C3: with an enabled SEMANTIC_SAFETY rule on TOOL_CALL that does not      *)
(* allow "GENERATE->TOOL_CALL", the arbiter step made when a GENERATE       *)
(* binding has just been executed and a TOOL_CALL binding is about to run   *)
(* yields a failing result of that rule.                                    *)

SemanticRules ==
    {r \in Range(policy_config.rules) :
        /\ r.enabled
        /\ r.rule_type = "semantic_safety"
        /\ "TOOL_CALL" \in Range(r.applies_to)}

GenerateThenToolCall ==
    /\ last.op = "arbiter"
    /\ hist.wrapper_outcome = "completed"
    /\ Meta_.instruction_history # << >>
    /\ instruction_bindings[Meta_.instruction_history[Len(Meta_.instruction_history)]]
           .instruction_type = "GENERATE"
    /\ instruction_bindings[last.about].instruction_type = "TOOL_CALL"
    /\ "GENERATE->TOOL_CALL" \notin transition_matrix(policy_config)

C3_GenerateToolCallFails ==
    GenerateThenToolCall =>
        \A r \in SemanticRules :
            /\ last.out.resolved
            /\ \E i \in DOMAIN last.out.rule_results :
                  /\ last.out.rule_results[i].rule_id = r.rule_id
                  /\ Failed(last.out.rule_results[i])

----------------------------------------------------------------------------
(* C4: when the scheduler calls the arbiter before the wrapper of X, the    *)
(* event recorded just before X's instruction_start is an arbiter_decision  *)
(* about X.                                                                 *)

C4_DecisionAboutNextInstruction ==
    (WrapperActed /\ last.governed) =>
        LET i == LastIndexOf(traces, "instruction_start")
        IN  /\ i > 1
            /\ traces[i - 1].event_type = "arbiter_decision"
            /\ traces[i - 1].instruction_id = last.binding

----------------------------------------------------------------------------
(* C5: a wrapper execution whose implementation raises appends exactly one  *)
(* entry to errors, with a non-empty instruction_id and error and an        *)
(* execution_time >= 0, and leaves user_state as it was.                    *)

ImplementationRaised == WrapperActed /\ last.out.outcome = "implementation"

C5_ImplementationRaises ==
    [][(steps' = steps + 1 /\ ImplementationRaised') =>
          LET before == state.os_metadata.errors
              after  == state'.os_metadata.errors
              entry  == after[Len(after)]
          IN  /\ Len(after) = Len(before) + 1
              /\ SubSeq(after, 1, Len(before)) = before
              /\ entry.instruction_id = last'.binding
              /\ entry.instruction_id # ""
              /\ entry.error # << >>
              /\ entry.execution_time >= 0
              /\ state'.user_state = state.user_state]_vars

C5_Witness ==
    /\ ImplementationRaised
    /\ Len(Meta_.errors) >= 2
    /\ "plan" \in DOMAIN state.user_state

----------------------------------------------------------------------------
(* C6: a wrapper execution in which input validation fails, the             *)
(* implementation raises or output validation fails returns: no exception   *)
(* reaches the scheduler, the failure is the last entry of errors and its   *)
(* message names the binding.                                               *)

C6_FailuresContained ==
    (WrapperActed /\ last.out.outcome \in {"input", "implementation", "output"}) =>
        /\ ~last.out.propagated
        /\ Meta_.errors # << >>
        /\ LET entry == Meta_.errors[Len(Meta_.errors)]
           IN  /\ entry.instruction_id = last.binding
               /\ last.binding \in Range(entry.error)

C6_Witness ==
    /\ WrapperActed
    /\ last.out.outcome = "input"
    /\ ~last.out.propagated
    /\ Len(Meta_.errors) = 1

----------------------------------------------------------------------------
(* C7: once the arbiter has interrupted the run, interrupt_reason keeps the *)
(* interrupt's reason through every later arbiter step and wrapper          *)
(* execution.                                                               *)

Interrupted == hist.interrupt_issued /\ state.os_metadata.interrupt_reason = <<"Policy violation">>

C7_InterruptSticky == [][Interrupted => Interrupted']_vars

----------------------------------------------------------------------------
(* C8: once fallback_triggered is true, every later arbiter step and        *)
(* wrapper execution leaves it true.                                        *)

C8_FallbackSticky ==
    [][state.os_metadata.fallback_triggered => state'.os_metadata.fallback_triggered]_vars

C8_Witness ==
    /\ Meta_.fallback_triggered
    /\ ArbiterActed
    /\ last.out.action = "INTERRUPT"

----------------------------------------------------------------------------
(* C9: a run in which a fallback was triggered, and in which no wrapper     *)
(* execution failed and no interrupt was issued, completes with             *)
(* success = true.                                                          *)

C9_SuccessAfterFallback ==
    (/\ phase = "completed"
     /\ hist.fallback_signalled
     /\ ~hist.error_recorded
     /\ ~hist.interrupt_issued) => last.success

----------------------------------------------------------------------------
(* C10: is_healthy() is true exactly when no wrapper execution has recorded *)
(* an error, no fallback has been triggered and no interrupt has been       *)
(* issued so far in the run; the success reported at completion is that     *)
(* value.                                                                   *)

C10_HealthyIff ==
    /\ is_healthy(state) <=>
          (~hist.error_recorded /\ ~hist.fallback_signalled /\ ~hist.interrupt_issued)
    /\ phase = "completed" =>
          (last.success <=>
              (~hist.error_recorded /\ ~hist.fallback_signalled /\ ~hist.interrupt_issued))

C10_Witness ==
    /\ WrapperActed
    /\ last.out.outcome = "completed"
    /\ hist.error_recorded
    /\ ~hist.fallback_signalled
    /\ ~hist.interrupt_issued
    /\ ~is_healthy(state)

----------------------------------------------------------------------------
(* C11: after any sequence of wrapper executions, successful or failing,    *)
(* and arbiter steps, recent_instructions has at most 5 entries and is the  *)
(* last min(5, n) entries of instruction_history, in the same order, n      *)
(* being the length of the history.                                         *)

C11_RecentIsSuffix ==
    LET history == state.os_metadata.instruction_history
        recent  == state.os_metadata.recent_instructions
        n       == Len(history)
        k       == IF n < 5 THEN n ELSE 5
    IN  /\ Len(recent) <= 5
        /\ Len(recent) = k
        /\ \A i \in 1..k : recent[i] = history[n - k + i]

C11_Witness ==
    /\ Len(state.os_metadata.instruction_history) > 5
    /\ Len(state.os_metadata.recent_instructions) = 5
    /\ hist.error_recorded
    /\ LastIndexOf(traces, "arbiter_decision") > 0
    /\ \E i, j \in DOMAIN state.os_metadata.recent_instructions :
          state.os_metadata.recent_instructions[i] # state.os_metadata.recent_instructions[j]

----------------------------------------------------------------------------
(* C12: for every execution id E and event type T, the summary of E counts  *)
(* under T the events recorded under E of type T, total_events is the sum   *)
(* of these counts, and the errors, violations, fallbacks and interrupts    *)
(* listed are those of the events recorded under E and of no other.         *)

RECURSIVE SumOver(_, _)
SumOver(f, S) ==
    IF S = {} THEN 0
    ELSE LET x == CHOOSE x \in S : TRUE IN f[x] + SumOver(f, S \ {x})

\* the data of the events of one type among those recorded under one execution id
DataRecorded(mine, event_type) ==
    LET at == {i \in DOMAIN mine : mine[i].event_type = event_type}
        nth(k) == CHOOSE i \in at : Cardinality({j \in at : j < i}) = k - 1
    IN  [k \in 1..Cardinality(at) |-> mine[nth(k)].data]

C12_SummaryCounts ==
    phase = "recorder" =>
        \A E \in RecorderExecutions :
            LET summary == get_trace_summary(traces, E)
                mine    == hist.by_exec[E]
            IN  /\ \A T \in EventTypes :
                      Get(summary.event_types, T, 0) =
                          Cardinality({i \in DOMAIN mine : mine[i].event_type = T})
                /\ DOMAIN summary.event_types \subseteq EventTypes
                /\ summary.total_events = SumOver(summary.event_types, DOMAIN summary.event_types)
                /\ summary.errors = DataRecorded(mine, "error")
                /\ summary.policy_violations = DataRecorded(mine, "policy_violation")
                /\ summary.fallbacks = DataRecorded(mine, "fallback_triggered")
                /\ summary.interrupts = DataRecorded(mine, "interrupt")

C12_Witness ==
    /\ phase = "recorder"
    /\ Len(traces) = 4
    /\ get_trace_summary(traces, "exec-1").total_events = 2
    /\ Get(get_trace_summary(traces, "exec-1").event_types, "error", 0) = 2
    /\ Len(get_trace_summary(traces, "exec-2").interrupts) = 1

----------------------------------------------------------------------------
(* C13: traceFor(E) is exactly the events recorded under E since the last   *)
(* clear, each once and in the order of recording, however the events of    *)
(* other executions are interleaved with them in the store.                 *)

C13_TraceInOrder ==
    phase = "recorder" =>
        \A E \in RecorderExecutions : get_execution_trace(traces, E) = hist.by_exec[E]

C13_Witness ==
    /\ phase = "recorder"
    /\ hist.cleared
    /\ Len(traces) = 3
    /\ traces[1].execution_id = "exec-1"
    /\ traces[2].execution_id = "exec-2"
    /\ traces[3].execution_id = "exec-1"
    /\ traces[1].event_type # traces[3].event_type

----------------------------------------------------------------------------
(* C14: an event, once recorded, keeps its type, data and ids and stays in  *)
(* the store through every arbiter step and wrapper execution; in           *)
(* particular the policy_evaluation event of an arbiter step holds the rule *)
(* results as they were evaluated, also when the step then logs the failing *)
(* ones as violations.                                                      *)

C14_EventsNeverChange ==
    [][/\ Len(traces') >= Len(traces)
       /\ \A i \in DOMAIN traces : traces'[i] = traces[i]
       /\ (last'.op = "arbiter" /\ last'.out.resolved) =>
              traces'[LastIndexOf(traces', "policy_evaluation")].data.rule_results =
                  last'.out.rule_results]_vars

----------------------------------------------------------------------------
(* C15: every event emitted while an arbiter step or a wrapper execution    *)
(* processes the record of a run carries the execution id of that run, for  *)
(* any interleaving of the steps of several runs through the same           *)
(* ArbiterGraph.                                                            *)

C15_EventsTaggedWithOwnRun ==
    [][(last'.op \in {"arbiter", "execute"}) =>
          \A i \in (Len(traces) + 1)..Len(traces') :
              traces'[i].execution_id = runs'[last'.run].os_metadata.execution_id]_vars

\* the same of the arbiter steps alone
C15_ArbiterEventsTaggedWithOwnRun ==
    [][(last'.op = "arbiter") =>
          \A i \in (Len(traces) + 1)..Len(traces') :
              traces'[i].execution_id = runs'[last'.run].os_metadata.execution_id]_vars

----------------------------------------------------------------------------
(* C16: after a wrapper execution on the record of execution E, the trace   *)
(* of E holds an instruction_start event of the binding and, later, exactly *)
(* one instruction_end event of the binding, whose status is completed if   *)
(* the execution succeeded and failed if it did not.                        *)

C16_StartThenOneEnd ==
    WrapperActed =>
        LET trace  == get_execution_trace(traces, state.os_metadata.execution_id)
            starts == {i \in DOMAIN trace :
                          /\ trace[i].event_type = "instruction_start"
                          /\ trace[i].instruction_id = last.binding}
            ends   == {j \in DOMAIN trace :
                          /\ trace[j].event_type = "instruction_end"
                          /\ trace[j].instruction_id = last.binding
                          /\ \A i \in starts : i < j}
        IN  /\ starts # {}
            /\ Cardinality(ends) = 1
            /\ \A j \in ends :
                  trace[j].data.status =
                      IF last.out.outcome = "completed" THEN "completed" ELSE "failed"

----------------------------------------------------------------------------
(* C17: for every record reached by arbiter steps and wrapper executions,   *)
(* from_dict(to_dict(record)) and deserialize(serialize(record)) equal the  *)
(* record in user_state, in system_state and in every field of os_metadata. *)

C17_RoundTrip ==
    last.op = "save_and_load" =>
        /\ last.via_dict = state
        /\ last.via_json = state

\* the part of it that concerns the metadata and from_dict(to_dict(record))
C17_MetadataRoundTrip ==
    last.op = "save_and_load" =>
        /\ last.via_dict = state
        /\ last.via_json.os_metadata = state.os_metadata
        /\ last.via_json.system_state = state.system_state

----------------------------------------------------------------------------
(* C19: without strict_mode, decide returns allowed = false exactly when    *)
(* the result of some applicable rule fails with severity critical; other   *)
(* failures leave allowed = true; either way the returned list holds the    *)
(* result of every applicable rule, the failing ones included.              *)

\* the rules of the policy that apply to the instruction type, by the definition of applies_to
Applicable(config, instruction_type) ==
    {rule \in Range(config.rules) :
        /\ rule.enabled
        /\ rule.applies_to = << >> \/ instruction_type \in Range(rule.applies_to)}

CriticalFailure(r) == Failed(r) /\ Get(r, "severity", None) = "critical"

C19_NonStrictDecide ==
    (last.op = "decide" /\ ~policy_config.strict_mode) =>
        /\ last.allowed = FALSE <=>
               \E rule \in Applicable(policy_config, last.instruction_type) :
                   CriticalFailure(_evaluate_rule(policy_config, rule, last.instruction_type,
                                                  last.snapshot))
        /\ \A rule \in Applicable(policy_config, last.instruction_type) :
               \E i \in DOMAIN last.results :
                   last.results[i] = _evaluate_rule(policy_config, rule, last.instruction_type,
                                                    last.snapshot)
        /\ \A i \in DOMAIN last.results :
               \E rule \in Applicable(policy_config, last.instruction_type) :
                   last.results[i].rule_id = rule.rule_id

\* a decision that allows although a result fails, and returns the failing result
C19_Witness ==
    /\ last.op = "decide"
    /\ ~policy_config.strict_mode
    /\ last.allowed = TRUE
    /\ \E i \in DOMAIN last.results : Failed(last.results[i])

\* a decision that blocks on a critical failure next to a passing rule
C19_WitnessBlocked ==
    /\ last.op = "decide"
    /\ ~policy_config.strict_mode
    /\ last.allowed = FALSE
    /\ \E i \in DOMAIN last.results : ~Failed(last.results[i])

----------------------------------------------------------------------------
(* C20: when the only allowed flow of the policy's semantic-safety rules is *)
(* "GENERATE->VERIFY->TOOL_CALL", evaluating a TOOL_CALL fails such a rule  *)
(* exactly when recent_instructions of the snapshot ends in GENERATE: the   *)
(* rule passes when it ends in VERIFY and when it is empty.                 *)

RecentOf(snapshot) ==
    Get(Get(snapshot, "os_metadata", EmptyDict), "recent_instructions", << >>)

EndsIn(recent, instruction_type) ==
    recent # << >> /\ recent[Len(recent)] = instruction_type

C20_SemanticSafety ==
    (/\ last.op = "decide"
     /\ last.instruction_type = "TOOL_CALL"
     /\ transition_matrix(policy_config) = {"GENERATE->VERIFY->TOOL_CALL"}) =>
        \A i \in DOMAIN last.results :
            Get(last.results[i], "rule_type", None) = "semantic_safety" =>
                /\ Failed(last.results[i]) <=> EndsIn(RecentOf(last.snapshot), "GENERATE")
                /\ EndsIn(RecentOf(last.snapshot), "VERIFY") => last.results[i].passed
                /\ RecentOf(last.snapshot) = << >> => last.results[i].passed

\* the rule fails on a TOOL_CALL after ... VERIFY, GENERATE
C20_Witness ==
    /\ last.op = "decide"
    /\ last.instruction_type = "TOOL_CALL"
    /\ transition_matrix(policy_config) = {"GENERATE->VERIFY->TOOL_CALL"}
    /\ Len(RecentOf(last.snapshot)) = 2
    /\ EndsIn(RecentOf(last.snapshot), "GENERATE")
    /\ \E i \in DOMAIN last.results :
           /\ Get(last.results[i], "rule_type", None) = "semantic_safety"
           /\ Failed(last.results[i])

\* the rule passes on a TOOL_CALL after GENERATE, VERIFY
C20_WitnessVerified ==
    /\ last.op = "decide"
    /\ last.instruction_type = "TOOL_CALL"
    /\ transition_matrix(policy_config) = {"GENERATE->VERIFY->TOOL_CALL"}
    /\ RecentOf(last.snapshot) = <<"GENERATE", "VERIFY">>
    /\ \E i \in DOMAIN last.results :
           /\ Get(last.results[i], "rule_type", None) = "semantic_safety"
           /\ last.results[i].passed

----------------------------------------------------------------------------
(* C21: when the arbiter step runs on a record whose user_state holds a     *)
(* content longer than the max_length of an enabled content-aware rule      *)
(* that applies to the type of the current instruction, the evaluation of   *)
(* the step holds a failing result of that rule, and under strict_mode the  *)
(* decision of the step is BLOCK.                                           *)

\* the content-aware rules of the policy whose max_length the content of user_state exceeds
LengthExceeded(config, instruction_type, user_state) ==
    {rule \in Applicable(config, instruction_type) :
        /\ rule.rule_type = "content_aware"
        /\ "max_length" \in DOMAIN rule.condition
        /\ rule.ill_typed = {}
        /\ "content" \in DOMAIN user_state
        /\ Len(user_state["content"]) > rule.condition["max_length"]}

C21_LongContentBlocked ==
    (last.op = "arbiter" /\ last.out.resolved) =>
        \A rule \in LengthExceeded(policy_config, last.out.instruction_type, state.user_state) :
            /\ \E i \in DOMAIN last.out.rule_results :
                   /\ last.out.rule_results[i].rule_id = rule.rule_id
                   /\ Failed(last.out.rule_results[i])
            /\ policy_config.strict_mode =>
                   traces[LastIndexOf(traces, "arbiter_decision")].data.decision = "BLOCK"

----------------------------------------------------------------------------
(* C22: a content-aware rule evaluated on a snapshot fails exactly when the *)
(* content contains one of its sensitive_keywords as a substring, case      *)
(* ignored, or is longer than its max_length; on a length failure           *)
(* details.current_length is the length of the content; content of exactly  *)
(* max_length without a keyword passes.                                     *)

ContainsIgnoringCase(content, keyword) ==
    \E i \in 0..(Len(content) - Len(keyword)) :
        \A j \in 1..Len(keyword) : Lower(content[i + j]) = Lower(keyword[j])

HasKeyword(rule, content) ==
    \E k \in Range(Get(rule.condition, "sensitive_keywords", << >>)) :
        ContainsIgnoringCase(content, k)

TooLong(rule, content) ==
    "max_length" \in DOMAIN rule.condition /\ Len(content) > rule.condition["max_length"]

\* the content-aware rules of the policy with well-typed conditions
ContentRules(config, instruction_type) ==
    {rule \in Applicable(config, instruction_type) :
        rule.rule_type = "content_aware" /\ rule.ill_typed = {}}

C22_ContentAware ==
    last.op = "decide" =>
        LET content == Get(last.snapshot, "content", << >>)
        IN  \A rule \in ContentRules(policy_config, last.instruction_type) :
                \A i \in DOMAIN last.results :
                    last.results[i].rule_id = rule.rule_id =>
                        /\ Failed(last.results[i]) <=>
                               HasKeyword(rule, content) \/ TooLong(rule, content)
                        /\ (TooLong(rule, content) /\ ~HasKeyword(rule, content)) =>
                               last.results[i].details.current_length = Len(content)

\* max_length 100 and content of length 150: a failing result with current_length 150
C22_Witness ==
    /\ last.op = "decide"
    /\ Len(Get(last.snapshot, "content", << >>)) = 150
    /\ \E i \in DOMAIN last.results :
           /\ last.results[i].rule_id = "length_100"
           /\ Failed(last.results[i])
           /\ last.results[i].details.current_length = 150

\* content of exactly max_length: the rule passes
C22_WitnessAtLimit ==
    /\ last.op = "decide"
    /\ \E rule \in ContentRules(policy_config, last.instruction_type) :
           /\ "max_length" \in DOMAIN rule.condition
           /\ Len(Get(last.snapshot, "content", << >>)) = rule.condition["max_length"]
           /\ \E i \in DOMAIN last.results :
                  last.results[i].rule_id = rule.rule_id /\ last.results[i].passed

\* a keyword found in another case: the rule fails
C22_WitnessKeyword ==
    /\ last.op = "decide"
    /\ Get(last.snapshot, "content", << >>) = <<"x", "A", "b">>
    /\ \E i \in DOMAIN last.results :
           last.results[i].rule_id = "keyword" /\ Failed(last.results[i])

----------------------------------------------------------------------------
(* C23: a resource-limit rule compares the top-level total_tokens and       *)
(* execution_time of the snapshot whenever that copy is present, the value  *)
(* of the protected metadata only when it is absent, and fails exactly when *)
(* the value used is greater than max_tokens or max_execution_time.         *)

\* the copy of the counter the rule is to use
CounterUsed(snapshot, key) ==
    IF key \in DOMAIN snapshot THEN snapshot[key]
    ELSE Get(Get(snapshot, "os_metadata", EmptyDict), key, 0)

Exceeds(rule, limit, snapshot, key) ==
    limit \in DOMAIN rule.condition /\ CounterUsed(snapshot, key) > rule.condition[limit]

C23_ResourceLimit ==
    last.op = "decide" =>
        \A rule \in Applicable(policy_config, last.instruction_type) :
            (rule.rule_type = "resource_limit" /\ rule.ill_typed = {}) =>
                \A i \in DOMAIN last.results :
                    last.results[i].rule_id = rule.rule_id =>
                        (Failed(last.results[i]) <=>
                            \/ Exceeds(rule, "max_tokens", last.snapshot, "total_tokens")
                            \/ Exceeds(rule, "max_execution_time", last.snapshot, "execution_time"))

\* the same, on the snapshots in which no top-level counter is present with value 0
C23_ResourceLimitNonZero ==
    (/\ last.op = "decide"
     /\ Get(last.snapshot, "total_tokens", 1) # 0
     /\ Get(last.snapshot, "execution_time", 1) # 0) => C23_ResourceLimit

----------------------------------------------------------------------------
(* C24: when the evaluator of a rule raises during evaluate, that rule      *)
(* yields a failed result of severity "error", every other applicable rule  *)
(* gets the result it gets without the raising rule, and the result list    *)
(* has exactly one entry per applicable rule.                               *)

\* the rules whose evaluator raises: a condition value of the wrong type
EvaluatorRaises(rule) == rule.ill_typed # {}

ErrorEntry(r) == "error" \in DOMAIN r

\* the places of the rule list whose rule applies to the instruction type
ApplicablePlaces(config, instruction_type) ==
    {p \in DOMAIN config.rules : config.rules[p] \in Applicable(config, instruction_type)}

\* the policy without the rules whose evaluator raises
WithoutRaising(config) ==
    Policy(SelectSeqBy(config.rules, {r \in Range(config.rules) : ~EvaluatorRaises(r)}),
           config.strict_mode)

C24_Isolation ==
    last.op = "decide" =>
        /\ \A i \in DOMAIN last.results :
               \A rule \in Applicable(policy_config, last.instruction_type) :
                   (last.results[i].rule_id = rule.rule_id /\ EvaluatorRaises(rule)) =>
                       /\ last.results[i].passed = FALSE
                       /\ last.results[i].severity = "error"
        /\ SelectSeqBy(last.results, {r \in Range(last.results) : ~ErrorEntry(r)}) =
               evaluate_rules(WithoutRaising(policy_config), last.instruction_type, last.snapshot)

C24_OneEntryPerRule ==
    last.op = "decide" =>
        Len(last.results) = Cardinality(ApplicablePlaces(policy_config, last.instruction_type))

C24_ErrorIsolation == C24_Isolation /\ C24_OneEntryPerRule

\* the count, for the policies whose rules name no instruction type twice in applies_to
C24_OneEntryPerRuleOfSets ==
    (\A rule \in Range(policy_config.rules) :
        \A tag \in Range(rule.applies_to) : Count(rule.applies_to, tag) = 1)
    => C24_OneEntryPerRule

----------------------------------------------------------------------------
(* C25: an arbiter step blocked with action LOG appends every failing       *)
(* result of the step, timestamped, to policy_violations (the list grows by *)
(* the number of failing results, earlier entries untouched), records one   *)
(* policy_violation event per failing result, and changes neither           *)
(* interrupt_reason nor fallback_triggered.                                 *)

FailingOf(rule_results) == SelectSeqBy(rule_results, {r \in Range(rule_results) : Failed(r)})

Unstamped(violation) == [key \in DOMAIN violation \ {"timestamp"} |-> violation[key]]

\* the events of the given type among those from place `from` on
EventsSince(tr, from, event_type) ==
    {i \in from..Len(tr) : tr[i].event_type = event_type}

C25_LogAppendsViolations ==
    [][(/\ last'.op = "arbiter"
        /\ last'.out.resolved
        /\ ~last'.out.allowed
        /\ last'.out.action = "LOG") =>
           LET failing == FailingOf(last'.out.rule_results)
               old     == state.os_metadata.policy_violations
               new     == state'.os_metadata.policy_violations
           IN  /\ Len(new) = Len(old) + Len(failing)
               /\ SubSeq(new, 1, Len(old)) = old
               /\ \A k \in DOMAIN failing :
                      /\ "timestamp" \in DOMAIN new[Len(old) + k]
                      /\ Unstamped(new[Len(old) + k]) = failing[k]
               /\ Cardinality(EventsSince(traces', Len(traces) + 1, "policy_violation")) =
                      Len(failing)
               /\ state'.os_metadata.interrupt_reason = state.os_metadata.interrupt_reason
               /\ state'.os_metadata.fallback_triggered = state.os_metadata.fallback_triggered
      ]_vars

\* a second LOG step of a run, with two failing results
C25_Witness ==
    /\ BlockedStep
    /\ last.out.action = "LOG"
    /\ Len(FailingOf(last.out.rule_results)) = 2
    /\ Len(state.os_metadata.policy_violations) > 2

----------------------------------------------------------------------------
(* C26: every arbiter step that resolves a binding records exactly one      *)
(* policy_evaluation event (total_rules the number of results, violations   *)
(* the number of failing results) and after it exactly one arbiter_decision *)
(* event, ALLOW iff decide allowed and BLOCK otherwise, whichever branch    *)
(* was taken; the interrupt, fallback_triggered and policy_violation events *)
(* of the step lie between the two.                                         *)

C26_EvaluationThenDecision ==
    [][(last'.op = "arbiter" /\ last'.out.resolved) =>
           LET from        == Len(traces) + 1
               evaluations == EventsSince(traces', from, "policy_evaluation")
               decisions   == EventsSince(traces', from, "arbiter_decision")
               enforced    == EventsSince(traces', from, "interrupt") \cup
                              EventsSince(traces', from, "fallback_triggered") \cup
                              EventsSince(traces', from, "policy_violation")
           IN  /\ Cardinality(evaluations) = 1
               /\ Cardinality(decisions) = 1
               /\ \A e \in evaluations :
                      /\ traces'[e].data.total_rules = Len(last'.out.rule_results)
                      /\ traces'[e].data.violations = Len(FailingOf(last'.out.rule_results))
                      /\ \A d \in decisions :
                             /\ e < d
                             /\ \A x \in enforced : e < x /\ x < d
               /\ \A d \in decisions :
                      /\ traces'[d].data.decision \in {"ALLOW", "BLOCK"}
                      /\ traces'[d].data.decision = "ALLOW" <=>
                             AllowDecision(policy_config, last'.out.rule_results)[1]
               /\ (~last'.out.allowed) =>
                      enforced = EventsSince(traces', from, EventOfAction(last'.out.action))
      ]_vars

\* a blocked step whose interrupt event lies between the evaluation and the decision
C26_Witness ==
    /\ BlockedStep
    /\ last.out.action = "INTERRUPT"
    /\ Len(traces) > 3
    /\ traces[Len(traces) - 2].event_type = "policy_evaluation"
    /\ traces[Len(traces) - 2].data.violations > 0
    /\ traces[Len(traces) - 1].event_type = "interrupt"
    /\ traces[Len(traces)].event_type = "arbiter_decision"
    /\ traces[Len(traces)].data.decision = "BLOCK"

----------------------------------------------------------------------------
(* C27: an arbiter step on a record whose current instruction has no        *)
(* registered binding, or that has no current instruction, returns the      *)
(* record with every field unchanged and records no policy_evaluation,      *)
(* interrupt, fallback_triggered or arbiter_decision event.                 *)

C27_UnresolvedPassesThrough ==
    [][(last'.op = "arbiter" /\
        (\/ state.os_metadata.current_instruction = None
         \/ state.os_metadata.current_instruction \notin DOMAIN instruction_bindings)) =>
           /\ ~last'.out.resolved
           /\ state' = state
           /\ \A i \in (Len(traces) + 1)..Len(traces') :
                  traces'[i].event_type \notin
                      {"policy_evaluation", "policy_violation", "interrupt",
                       "fallback_triggered", "arbiter_decision"}
           /\ \A i \in DOMAIN traces : traces'[i] = traces[i]
      ]_vars

\* the arbiter was called with a record whose current instruction names no binding
C27_Witness ==
    /\ last.op = "arbiter"
    /\ state.os_metadata.current_instruction = "ghost"
    /\ instruction_bindings # EmptyDict
    /\ ~last.out.resolved

\* the arbiter was called with a record that has no current instruction
C27_WitnessNone ==
    /\ last.op = "arbiter"
    /\ state.os_metadata.current_instruction = None
    /\ ~last.out.resolved

----------------------------------------------------------------------------
(* C28: after a failed wrapper execution fallback is signalled              *)
(* (fallback_triggered set and a fallback_triggered event recorded) exactly *)
(* when the type of the failing binding is GENERATE or TOOL_CALL and some   *)
(* registered binding has type FALLBACK; the wrapper runs no other binding  *)
(* itself, and a successful execution signals no fallback.                  *)

FallbackRegistered ==
    \E id \in DOMAIN instruction_bindings : instruction_bindings[id].instruction_type = "FALLBACK"

C28_FallbackSignalled ==
    [][(last'.op = "execute") =>
           LET X        == last'.binding
               from     == Len(traces) + 1
               signals  == EventsSince(traces', from, "fallback_triggered")
               expected == /\ last'.out.error
                           /\ instruction_bindings[X].instruction_type \in {"GENERATE", "TOOL_CALL"}
                           /\ FallbackRegistered
           IN  /\ Cardinality(signals) = IF expected THEN 1 ELSE 0
               /\ expected => state'.os_metadata.fallback_triggered
               /\ ~expected => state'.os_metadata.fallback_triggered =
                                   state.os_metadata.fallback_triggered
               \* no other binding is run by the wrapper
               /\ \A i \in from..Len(traces') : traces'[i].instruction_id = X
               /\ Cardinality(EventsSince(traces', from, "instruction_start")) = 1
               /\ state'.os_metadata.instruction_history =
                      Append(state.os_metadata.instruction_history, X)
               /\ state'.os_metadata.current_instruction = X
               /\ last'.out.error => state'.user_state = state.user_state
      ]_vars

\* a GENERATE binding failed with a FALLBACK binding registered: fallback was signalled
C28_Witness ==
    /\ WrapperActed
    /\ last.out.error
    /\ last.out.fallback
    /\ instruction_bindings[last.binding].instruction_type = "GENERATE"
    /\ FallbackRegistered
    /\ traces[Len(traces)].event_type = "fallback_triggered"

\* the FALLBACK binding itself failed: no fallback was signalled
C28_WitnessNotSignalled ==
    /\ WrapperActed
    /\ last.out.error
    /\ instruction_bindings[last.binding].instruction_type = "FALLBACK"
    /\ ~Meta_.fallback_triggered

----------------------------------------------------------------------------
(* C29: every construction call that names an unregistered instruction id   *)
(* (add_edge, set_entry_point, set_finish_point, a dependency of            *)
(* add_instruction) fails with an error and leaves the topology without     *)
(* that edge.                                                               *)

ConstructionCall == last.op \in {"add_instruction", "add_edge", "set_entry_point", "set_finish_point"}

\* the ids the last call named that were not registered when it was made
NamedUnregistered == {id \in last.named : id \notin last.registered \cup {last.id}}

\* no edge of the topology ends at an id without a binding
EdgesOfRegistered ==
    \A edge \in hist.edges :
        {edge[1], edge[2]} \subseteq DOMAIN instruction_bindings \cup {"__start__", "__end__"}

C29_UnknownReferenceFails ==
    (phase = "building" /\ ConstructionCall) =>
        /\ NamedUnregistered # {} => last.raised
        /\ EdgesOfRegistered

\* the same for add_edge, set_entry_point and set_finish_point alone
C29_EdgeCallsFail ==
    (phase = "building" /\ ConstructionCall) =>
        /\ (last.op # "add_instruction" /\ NamedUnregistered # {}) => last.raised
        /\ EdgesOfRegistered

----------------------------------------------------------------------------
(* C30: once a binding is registered under an id, the id resolves to that   *)
(* binding from then on: add_instruction with a registered id is rejected   *)
(* and does not replace the binding.                                        *)

C30_RegisteredOnce ==
    [][/\ \A X \in DOMAIN instruction_bindings :
              /\ X \in DOMAIN instruction_bindings'
              /\ instruction_bindings'[X] = instruction_bindings[X]
       /\ (last'.op = "add_instruction" /\ steps' = steps + 1
             /\ last'.id \in DOMAIN instruction_bindings) => last'.raised
      ]_vars

\* the part of it that holds: a registered id stays registered, and add_instruction with
\* a registered id is rejected
C30_RejectedAndNeverUnregistered ==
    [][/\ DOMAIN instruction_bindings \subseteq DOMAIN instruction_bindings'
       /\ (last'.op = "add_instruction" /\ steps' = steps + 1
             /\ last'.id \in DOMAIN instruction_bindings) => last'.raised
      ]_vars

----------------------------------------------------------------------------
(* C31: evaluate and decide never modify the compiled applies-index or      *)
(* transition set, and the decision of an evaluation is the one the engine  *)
(* gives for its instruction type and snapshot alone, whatever evaluations  *)
(* of other runs on the shared engine it is interleaved with.               *)

C31_SharedEngineReadOnly ==
    phase = "shared" =>
        /\ hist.engine = _compile_rule_caches(policy_config)
        /\ last.op = "decide" =>
              <<last.allowed, last.results>> =
                  should_allow_execution(policy_config, last.instruction_type, last.snapshot)

\* a blocked decision of one run whose evaluation was interleaved with another run's, which
\* is still in flight for the other instruction type with some of its rules evaluated
C31_Witness ==
    /\ phase = "shared"
    /\ last.op = "decide"
    /\ last.interleaved
    /\ ~last.allowed
    /\ Len(last.results) = 2
    /\ \E F \in SharedRuns \ {last.run} :
          /\ hist.in_flight[F] # NotEvaluating
          /\ hist.in_flight[F].instruction_type # last.instruction_type
          /\ hist.in_flight[F].snapshot # last.snapshot
          /\ hist.in_flight[F].results # << >>

----------------------------------------------------------------------------
(* C32: with several writers recording into the one store concurrently,     *)
(* every event appended is in the store exactly once and as constructed,    *)
(* the trace of each execution lists its events in the order its writer     *)
(* recorded them, and a read that runs while events are appended returns    *)
(* only events that were appended, each once and in that order, with a      *)
(* summary of just those.                                                   *)

IsPrefix(s, t) == Len(s) <= Len(t) /\ s = SubSeq(t, 1, Len(s))

C32_ConcurrentAppendsAndReads ==
    phase = "concurrent" =>
        /\ Len(traces) = Len(hist.by_exec["exec-1"]) + Len(hist.by_exec["exec-2"])
        /\ \A E \in Writers : get_execution_trace(traces, E) = hist.by_exec[E]
        /\ last.op = "read" =>
              /\ IsPrefix(last.events, hist.by_exec[last.execution_id])
              /\ Len(last.events) >= Len(get_execution_trace(last.store, last.execution_id))
              /\ last.summary.total_events = Len(last.events)
              /\ last.summary.errors =
                    [i \in 1..Count([j \in DOMAIN last.events |-> last.events[j].event_type], "error")
                        |-> [message |-> <<"error">>]]

\* a read of exec-1 that began on a store of one event returned two events: while it ran,
\* one writer appended an event of exec-2 constructed before the first event of the store,
\* and the other the second event of exec-1
C32_Witness ==
    /\ phase = "concurrent"
    /\ last.op = "read"
    /\ last.execution_id = "exec-1"
    /\ Len(last.events) = 2
    /\ Len(last.store) = 3
    /\ last.store[2].execution_id = "exec-2"
    /\ last.store[2].timestamp < last.store[1].timestamp
    /\ last.began_at = 1

----------------------------------------------------------------------------
(* C33: evaluate returns exactly one result for each rule that the          *)
(* uncompiled filter get_rules_for_instruction selects for the instruction  *)
(* type, and no result for any other rule.                                  *)

RuleIdsOf(s) == [i \in DOMAIN s |-> s[i].rule_id]

C33_IndexMatchesFilter ==
    last.op = "decide" =>
        LET evaluated == RuleIdsOf(last.results)
            selected  == RuleIdsOf(get_rules_for_instruction(policy_config, last.instruction_type))
        IN  \A id \in Range(evaluated) \cup Range(selected) :
                Count(evaluated, id) = Count(selected, id)

\* the compiled index and the filter select the same rules, counted or not
C33_SameRulesSelected ==
    last.op = "decide" =>
        Range(RuleIdsOf(last.results)) =
            Range(RuleIdsOf(get_rules_for_instruction(policy_config, last.instruction_type)))

----------------------------------------------------------------------------
(* C34: interrupt_reason is set only if an INTERRUPT has been issued for    *)
(* the run; the FALLBACK action of the arbiter and the fallback signalled   *)
(* by a wrapper set fallback_triggered and leave interrupt_reason as it was. *)

C34_ReasonOnlyByInterrupt ==
    state.os_metadata.interrupt_reason # NoneText => hist.interrupt_issued

\* interrupt_reason is set only if an interrupt was issued or a fallback signalled, and
\* without an interrupt it holds the text that trigger_fallback writes
C34_ReasonByInterruptOrFallback ==
    state.os_metadata.interrupt_reason # NoneText =>
        \/ hist.interrupt_issued
        \/ /\ hist.fallback_signalled
           /\ state.os_metadata.fallback_triggered
           /\ Head(state.os_metadata.interrupt_reason) = "FALLBACK: "

----------------------------------------------------------------------------
(* C35: with strict_mode false, an arbiter step in which rules fail but     *)
(* none of severity critical is allowed and leaves the record exactly as it *)
(* was: no violation is appended, fallback_triggered is not set even when a *)
(* failing rule asks for FALLBACK, and the step records only its            *)
(* activation, the policy_evaluation holding the failures, and the ALLOW    *)
(* decision.                                                                *)

C35_NonCriticalFailuresLeaveRecord ==
    [][(/\ last'.op = "arbiter"
        /\ last'.out.resolved
        /\ ~policy_config.strict_mode
        /\ FailingOf(last'.out.rule_results) # << >>
        /\ ~SomeFailing(last'.out.rule_results, "severity", "critical")) =>
           /\ last'.out.allowed
           /\ state' = state
           /\ Len(traces') = Len(traces) + 3
           /\ SubSeq(traces', 1, Len(traces)) = traces
           /\ traces'[Len(traces) + 1].event_type = "arbiter_activation"
           /\ traces'[Len(traces) + 2].event_type = "policy_evaluation"
           /\ traces'[Len(traces) + 2].data.rule_results = last'.out.rule_results
           /\ traces'[Len(traces) + 2].data.violations = Len(FailingOf(last'.out.rule_results))
           /\ traces'[Len(traces) + 3].event_type = "arbiter_decision"
           /\ traces'[Len(traces) + 3].data.decision = "ALLOW"
      ]_vars

\* an allowed step in which a rule of action FALLBACK failed, on a record without fallback
C35_Witness ==
    /\ phase = "history"
    /\ ArbiterActed
    /\ last.out.allowed
    /\ SomeFailing(last.out.rule_results, "action", "FALLBACK")
    /\ SomeFailing(last.out.rule_results, "action", "LOG")
    /\ ~Meta_.fallback_triggered
    /\ Meta_.policy_violations = << >>
    /\ traces[Len(traces) - 1].data.violations = 2

----------------------------------------------------------------------------
(* C36: an arbiter step leaves user_state, system_state and every field of  *)
(* the metadata as they were, except interrupt_reason, fallback_triggered,  *)
(* policy_violations and last_updated.                                      *)

ArbiterMayChange == {"interrupt_reason", "fallback_triggered", "policy_violations", "last_updated"}

C36_ArbiterFrame ==
    [][last'.op = "arbiter" =>
           /\ state'.user_state = state.user_state
           /\ state'.system_state = state.system_state
           /\ \A field \in DOMAIN state.os_metadata \ ArbiterMayChange :
                  state'.os_metadata[field] = state.os_metadata[field]
      ]_vars

\* an arbiter step that interrupted a run with tokens, time, history and errors on record
C36_Witness ==
    /\ phase = "twin"
    /\ ArbiterActed
    /\ last.out.action = "INTERRUPT"
    /\ Meta_.interrupt_reason = <<"Policy violation">>
    /\ Meta_.total_tokens > 0
    /\ Meta_.execution_time > 0
    /\ Meta_.errors # << >>
    /\ Len(Meta_.instruction_history) = 2

\* an arbiter step that logged a violation
C36_WitnessLog ==
    /\ phase = "twin"
    /\ ArbiterActed
    /\ last.out.action = "LOG"
    /\ Meta_.policy_violations # << >>
    /\ Meta_.total_tokens > 0

----------------------------------------------------------------------------
(* C37: after any sequence of wrapper executions total_tokens is the sum of *)
(* the tokens_used that the successful executions returned (0 for an output *)
(* without tokens_used), and a failed execution leaves total_tokens,        *)
(* execution_time and latency_metrics as they were.                         *)

C37_TokensAreTheSumReturned ==
    [][(phase = "twin" /\ last'.op = "execute") =>
           /\ state'.os_metadata.total_tokens = hist'.tokens_returned
           /\ IF last'.out.outcome = "completed"
              THEN state'.os_metadata.total_tokens =
                       state.os_metadata.total_tokens + last'.returned_tokens
              ELSE /\ state'.os_metadata.total_tokens = state.os_metadata.total_tokens
                   /\ state'.os_metadata.execution_time = state.os_metadata.execution_time
                   /\ state'.os_metadata.latency_metrics = state.os_metadata.latency_metrics
      ]_vars

\* two executions returned tokens, one returned an output without tokens_used
C37_Witness ==
    /\ phase = "twin"
    /\ WrapperActed
    /\ last.out.outcome = "completed"
    /\ last.returned_tokens = 0
    /\ Meta_.total_tokens = 4
    /\ DOMAIN Meta_.latency_metrics = {"generate_plan", "summarize", "call_tool"}

\* an execution failed on a record with tokens and time counted: at the implementation,
\* and at the counting of an output whose tokens_used is None
C37_WitnessFailed ==
    /\ phase = "twin"
    /\ WrapperActed
    /\ last.out.outcome \in {"implementation", "accounting"}
    /\ Meta_.total_tokens = 2
    /\ Meta_.execution_time = 1
    /\ Meta_.errors # << >>

----------------------------------------------------------------------------
(* C38: a wrapper execution calls the implementation of its binding at most *)
(* once, whatever the max_retries of the binding, and not at all when the   *)
(* input does not validate; retry_count is 0 throughout the run.            *)

C38_NoRetries ==
    [][phase = "twin" =>
           /\ state'.os_metadata.retry_count = 0
           /\ last'.op = "execute" =>
                  /\ last'.out.invoked \in {0, 1}
                  /\ last'.out.invoked = 0 <=>
                         ~(instruction_bindings[last'.binding].input_schema
                               \subseteq DOMAIN state.user_state)
                  /\ last'.impl = "raise" => Len(state'.os_metadata.errors) =
                                                 Len(state.os_metadata.errors) + 1
      ]_vars

\* the implementation of a binding with max_retries 5 raised, and was called once
C38_Witness ==
    /\ phase = "twin"
    /\ WrapperActed
    /\ last.binding = "summarize"
    /\ instruction_bindings[last.binding].max_retries = 5
    /\ last.impl = "raise"
    /\ last.out.invoked = 1
    /\ last.out.outcome = "implementation"
    /\ Meta_.retry_count = 0

\* the input of a binding did not validate, and its implementation was not called
C38_WitnessInput ==
    /\ phase = "twin"
    /\ WrapperActed
    /\ last.binding = "call_tool"
    /\ last.out.outcome = "input"
    /\ last.out.invoked = 0

----------------------------------------------------------------------------
(* C39: with executions that report tokens_used >= 0, total_tokens never    *)
(* decreases, and every arbiter step made while total_tokens exceeds the    *)
(* max_tokens of an enabled critical RESOURCE_LIMIT rule that applies to    *)
(* the type of the instruction it judges is decided BLOCK with action       *)
(* INTERRUPT.                                                               *)

\* some enabled critical resource-limit rule applying to the type has its max_tokens exceeded
CriticalLimitExceeded(config, instruction_type, total_tokens) ==
    \E rule \in Range(config.rules) :
        /\ rule.enabled
        /\ rule.rule_type = "resource_limit"
        /\ rule.severity = "critical"
        /\ rule.applies_to = << >> \/ instruction_type \in Range(rule.applies_to)
        /\ "max_tokens" \in DOMAIN rule.condition \ rule.ill_typed
        /\ total_tokens > rule.condition["max_tokens"]

C39_ExceededLimitInterrupts ==
    [][phase = "twin" =>
           /\ state'.os_metadata.total_tokens >= state.os_metadata.total_tokens
           /\ (/\ last'.op = "arbiter"
               /\ state.os_metadata.current_instruction \in DOMAIN instruction_bindings
               /\ CriticalLimitExceeded(
                      policy_config,
                      instruction_bindings[state.os_metadata.current_instruction].instruction_type,
                      state.os_metadata.total_tokens)) =>
                  /\ last'.out.resolved
                  /\ ~last'.out.allowed
                  /\ last'.out.action = "INTERRUPT"
      ]_vars

\* under the non-strict policy, the second arbiter step in a row after the limit was
\* exceeded is blocked with INTERRUPT as the first was
C39_Witness ==
    /\ phase = "twin"
    /\ ~policy_config.strict_mode
    /\ ArbiterActed
    /\ last.out.instruction_type = "GENERATE"
    /\ ~last.out.allowed
    /\ last.out.action = "INTERRUPT"
    /\ Meta_.total_tokens = 2
    /\ Cardinality({i \in DOMAIN traces : traces[i].event_type = "interrupt"}) = 2

----------------------------------------------------------------------------
(* C40: the record returned by an arbiter step or a wrapper execution, and  *)
(* the decision of the step, are the same whether the ArbiterGraph was      *)
(* built with observability enabled or disabled; with observability         *)
(* disabled the trace of the graph is the empty list and its summary the    *)
(* empty map.                                                               *)

C40_ObservabilityChangesNothing ==
    phase = "twin" =>
        /\ runs.state = state
        /\ last.op \in {"arbiter", "execute"} => runs.out = last.out
        /\ runs.traces = NoRecorder
        /\ ArbiterGraph_get_execution_trace(runs.traces, arbiter_execution_id, None) = << >>
        /\ ArbiterGraph_get_trace_summary(runs.traces, arbiter_execution_id, None) = EmptyDict

\* a step blocked with LOG appended a violation to both records, after an execution that
\* counted tokens on both; the graph with observability has the events of the run
C40_Witness ==
    /\ phase = "twin"
    /\ ArbiterActed
    /\ ~runs.out.allowed
    /\ runs.out.action = "LOG"
    /\ runs.state.os_metadata.policy_violations # << >>
    /\ runs.state.os_metadata.total_tokens = 2
    /\ Len(ArbiterGraph_get_execution_trace(traces, arbiter_execution_id, None)) > 3
    /\ ArbiterGraph_get_trace_summary(traces, arbiter_execution_id, None).policy_violations # << >>

\* a failed execution signalled fallback on both records
C40_WitnessFallback ==
    /\ phase = "twin"
    /\ WrapperActed
    /\ runs.out.fallback
    /\ runs.state.os_metadata.fallback_triggered
    /\ runs.state.os_metadata.errors # << >>

====
